---- MODULE Spec2Model ----
(***************************************************************************)
(* Model of memory-weave-hub: the guest view (src/pages/GuestView.tsx),     *)
(* the media card, the batch export hook and the owner view, over the      *)
(* backing store declared in the supabase migration.                       *)
(*                                                                         *)
(* The groups of state are modelled each with its own specification:       *)
(*   SpecReactions  the reaction toggle (handleReaction), the reactions    *)
(*                  table with its UNIQUE constraint, the reactions        *)
(*                  change feed and fetchReactions;                        *)
(*   SpecBadges     the counts and buttons a media card renders;           *)
(*   SpecUpload     the upload loop handleFileSelect;                      *)
(*   SpecPhotos     the photos change feed handlers, fetchPhotos and the   *)
(*                  channels of the guest view;                            *)
(*   SpecDownload   downloadMultiple of the export hook;                   *)
(*   SpecHook       downloadMultiple and downloadSingle of one instance    *)
(*                  of the hook, interleaved;                              *)
(*   SpecAccess     the row level security policies of the store;          *)
(*   SpecOwner      handleDeletePhoto of the owner view;                   *)
(*   SpecDashboard  handleCreateEvent and fetchEvents of the dashboard,    *)
(*                  with generate_event_code and the events policies;      *)
(*   SpecJoin       handleJoinEvent of the landing page;                   *)
(*   SpecFrame      the reaction toggle over a table that already holds    *)
(*                  rows of other guests and other emoji;                  *)
(*   SpecOpen       the guest view opened on an event that already has     *)
(*                  media in the store.                                    *)
(* Requests are assumed to reach the store; the outcomes modelled are the  *)
(* ones the store semantics and the handlers' own branches distinguish.    *)
(***************************************************************************)
EXTENDS Integers, Sequences, FiniteSets, TLC

\* ------------------------------------------------------------------ bounds
MaxToggles  == 2   \* handleReaction calls in a behaviour
MaxFiles    == 2   \* files in one selection
MaxBatches  == 1   \* selections uploaded in a behaviour
MaxPhotos   == 2   \* photo rows inserted in a behaviour of the media list
MaxSwitches == 1   \* changes of the viewed event code in a behaviour
MaxMedias   == 3   \* media items handed to one batch export
MaxDeletes  == 2   \* handleDeletePhoto calls in a behaviour of the owner view
MaxCreates  == 2   \* handleCreateEvent calls in a behaviour of the dashboards
MaxJoins    == 2   \* handleJoinEvent calls in a behaviour of the landing page
MaxPad      == 1   \* whitespace characters typed before and after a code

\* ------------------------------------------------------- program constants
EMOJIS == <<"heart", "thumbs", "star", "laugh">>

\* the guest sessions, the media cards and the emoji kinds that are followed
\* (the media items named here are rows of photos that stay in the store)
Guests   == {"g1", "g2"}
Media    == {"m1"}
EmojiSet == {EMOJIS[1]}

VARIABLES
    \* ---- reactions: store side
    dbReactions,   \* rows of public.reactions: [id, photo_id, emoji, guest_identifier]
    nextRowId,     \* source of fresh row ids (uuid_generate_v4)
    \* ---- reactions: client side, per guest session
    reactions,     \* useState<Reaction[]>: the local reaction list
    calls,         \* log of handleReaction invocations and their positions
    rFetchReq,     \* fetchReactions requests sent, not yet served
    rFetchResp,    \* fetchReactions responses in flight (snapshots)
    rNotif,        \* reactions change notifications in flight
    toasts,        \* notifications shown by the guest view, per guest
    \* ---- upload: the guest view of the uploading session
    event,         \* useState<Event | null>
    caption,       \* useState(''): the caption input
    uploaderName,  \* useState(''): the name input
    isUploading,   \* useState(false)
    fileInput,     \* fileInputRef.current.value: the selection shown by the picker
    upFiles,       \* Array.from(files) of the running handleFileSelect
    upIdx,         \* position of its for loop
    upPc,          \* the await it is suspended at: idle, upload, meta, insert
    upClosure,     \* event, caption and uploaderName as captured by the handler
    upMeta,        \* what the video element of the current file does
    upLog,         \* per-file outcome of the running (or last) batch
    batches,       \* batches started
    \* ---- upload: store side
    blobs,         \* keys held by the event-photos bucket
    dbPhotos,      \* rows of public.photos
    nextPhotoId,   \* source of fresh photo ids (uuid_generate_v4)
    clock,         \* now() of the store
    \* ---- media list: the guest view of the viewing session
    eventCode,     \* useParams().eventCode
    photos,        \* useState<Photo[]>: the local media list
    effEvent,      \* `event` as captured by the closures of the running effect
    switches,      \* changes of eventCode so far
    evFetch,       \* fetchEvent requests in flight, by event code
    phFetchReq,    \* fetchPhotos requests sent, not yet served, by event id
    phFetchResp,   \* fetchPhotos responses in flight (snapshots)
    phNotif,       \* photos change notifications in flight to photosChannel
    channels,      \* realtime channels the guest view holds subscribed
    mounted,       \* is the guest view mounted?
    \* ---- media card
    rendered,      \* what the media cards of each guest view last rendered
    \* ---- batch export (useMediaDownload)
    isDownloading, \* useState(false)
    progress,      \* useState<DownloadProgress | null>(null)
    dlMedias,      \* the `medias` argument of the running downloadMultiple
    dlIdx,         \* `i` of its for loop
    dlPc,          \* the await it is suspended at: idle, import, fetch, generate
    dlLog,         \* per item, whether it was added to the zip or skipped
    archive,       \* names of the files in the zip's media folder
    offered,       \* content of the zip handed to the browser as a download
    dlToasts,      \* notifications shown by the hook
    dsPc,          \* downloadSingle: idle, fetch (suspended at its await), done, failed
    dsMedia,       \* the `media` argument of the running (or last) downloadSingle
    dsOffered,     \* names of the files downloadSingle handed to the browser
    \* ---- owner view (EventView)
    user,          \* useAuth().user of the session that opens the owner view
    ovPc,          \* the owner view: unmounted, loading (fetchEvent in flight), loaded
    ovUser,        \* `user` as captured by the fetchEvent the effect called
    isOwner,       \* useState(false)
    ovPhotos,      \* useState<Photo[]>: the owner view's media list
    ovFetchReq,    \* its fetchPhotos requests sent, not yet served
    ovFetchResp,   \* its fetchPhotos responses in flight (snapshots)
    delPc,         \* the await handleDeletePhoto is suspended at: idle, row, blob
    delTarget,     \* photoId and storagePath of the running (or last) handleDeletePhoto
    deletes,       \* handleDeletePhoto calls so far
    ovToasts,      \* notifications shown by the owner view
    \* ---- store: requests of arbitrary callers
    lastReq,       \* the latest request sent straight to the store's API
    \* ---- store: the events table
    dbEvents,      \* rows of public.events: [id, user_id, title, event_code]
    nextEventId,   \* source of fresh event ids (uuid_generate_v4)
    \* ---- dashboard (Dashboard), per signed-in user
    events,        \* useState<Event[]>([]): the event list
    isSubmitting,  \* useState(false)
    dashPc,        \* the await handleCreateEvent is suspended at: idle, code, insert
    dashRow,       \* title and code of the running (or last) handleCreateEvent
    dashFetchReq,  \* fetchEvents requests sent, not yet served
    dashFetchResp, \* fetchEvents responses in flight (snapshots)
    dashToasts,    \* notifications shown by the dashboard
    creates,       \* handleCreateEvent calls so far
    \* ---- landing page (Index)
    joinCode,      \* useState(''): the event code input
    joinPc,        \* the await handleJoinEvent is suspended at: idle, lookup, response
    joinArg,       \* eventCode as captured by the running (or last) handleJoinEvent
    joinQuery,     \* the event_code its lookup asks for
    joinResp,      \* the result of the lookup: [error, data]
    lookups,       \* lookups sent so far
    navigated,     \* the route navigate() was called with, if it was
    joinToasts,    \* notifications shown by the landing page
    joins          \* handleJoinEvent calls so far

reactVars == <<dbReactions, nextRowId, reactions, calls, rFetchReq, rFetchResp, rNotif>>
upVars    == <<caption, uploaderName, isUploading, fileInput, upFiles, upIdx,
               upPc, upClosure, upMeta, upLog, batches, blobs>>
storeVars == <<dbPhotos, nextPhotoId, clock>>
phVars    == <<eventCode, photos, effEvent, switches, evFetch, phFetchReq, phFetchResp, phNotif>>

subVars   == <<channels, mounted>>
cardVars  == <<rendered>>
sglVars   == <<dsPc, dsMedia, dsOffered>>
dlVars    == <<isDownloading, progress, dlMedias, dlIdx, dlPc, dlLog, archive, offered, dlToasts,
               sglVars>>
ownVars   == <<user, ovPc, ovUser, isOwner, ovPhotos, ovFetchReq, ovFetchResp,
               delPc, delTarget, deletes, ovToasts>>
apiVars   == <<lastReq>>
evtVars   == <<dbEvents, nextEventId>>
dashVars  == <<events, isSubmitting, dashPc, dashRow, dashFetchReq, dashFetchResp,
               dashToasts, creates>>

\* state of the components other than the guest view's handlers
joinVars  == <<joinCode, joinPc, joinArg, joinQuery, joinResp, lookups, navigated,
               joinToasts, joins>>
extVars   == <<cardVars, dlVars, ownVars, apiVars, evtVars, dashVars, joinVars>>

vars == <<reactVars, toasts, event, upVars, storeVars, phVars, subVars, extVars>>

\* faulty variant: the identity is generated again at every render
guestId_mut(g) == <<g, Len(calls[g])>>

\* const [guestId] = useState(() => ...): the session identity of guest session
\* g, generated by the initializer of the first render, distinct between
\* sessions; the setter is not taken from useState
guestId(g) == g

\* ============================================================ REACTIONS ==

\* rows of `rows` that carry the triple (m, e, p)
Matching(rows, m, e, p) ==
    {r \in rows : r.photo_id = m /\ r.emoji = e /\ r.guest_identifier = p}

\* faulty variant: any participant's row counts as the viewer's
hasReacted_mut(g, m, e) ==
    {r \in reactions[g] : r.photo_id = m /\ r.emoji = e} # {}

\* hasReacted of a guest session, over its local list
hasReacted(g, m, e) == Matching(reactions[g], m, e, guestId(g)) # {}

\* reactions.find(...) of handleReaction: the matching row, if any
ExistingReaction(g, m, e) == Matching(reactions[g], m, e, guestId(g))

\* faulty variant: the constraint is not declared
UniqueOk_mut(rows, m, e, p) == TRUE

\* UNIQUE(photo_id, emoji, guest_identifier): may this row be inserted?
UniqueOk(rows, m, e, p) == Matching(rows, m, e, p) = {}

\* faulty variant: the insert always adds a row
InsertReaction_mut(rows, id, m, e, p) ==
    rows \cup {[id |-> id, photo_id |-> m, emoji |-> e, guest_identifier |-> p]}

\* the reactions table after an insert request (unchanged when rejected)
InsertReaction(rows, id, m, e, p) ==
    IF UniqueOk(rows, m, e, p)
    THEN rows \cup {[id |-> id, photo_id |-> m, emoji |-> e, guest_identifier |-> p]}
    ELSE rows

\* faulty variant: the delete removes every row on the media item and emoji
\* of the row named
DeleteReaction_mut(rows, id) ==
    {r \in rows : \A x \in rows : x.id = id => ~(r.photo_id = x.photo_id /\ r.emoji = x.emoji)}

\* the reactions table after a delete by row id
DeleteReaction(rows, id) == {r \in rows : r.id # id}

\* every subscriber of the reactions channel gets one notification per change
NotifyAll(n) == [h \in Guests |-> n[h] + 1]

InFlight(g)   == {n \in 1..Len(calls[g]) : calls[g][n].pc \in {"sent", "applied"}}
Unresolved(g) == {n \in 1..Len(calls[g]) : calls[g][n].pc = "sent"}

RECURSIVE CallsOf(_)
CallsOf(gs) ==
    IF gs = {} THEN 0
    ELSE LET g == CHOOSE x \in gs : TRUE IN Len(calls[g]) + CallsOf(gs \ {g})

TotalCalls == CallsOf(Guests)

\* handleReaction, up to the await: read the local list, choose and send the write.
\* ident is the guest_identifier the request carries; rowBefore, unreturned and
\* unresolved record what held when the call started and no action reads them.
HandleReaction(g, m, e) ==
    /\ TotalCalls < MaxToggles
    /\ LET ex == ExistingReaction(g, m, e)
           c  == [pc         |-> "sent",
                  photo      |-> m,
                  emoji      |-> e,
                  ident      |-> guestId(g),
                  op         |-> IF ex # {} THEN "delete" ELSE "insert",
                  id         |-> IF ex # {} THEN (CHOOSE r \in ex : TRUE).id ELSE 0,
                  result     |-> "none",
                  rowBefore  |-> Matching(dbReactions, m, e, guestId(g)) # {},
                  unreturned |-> InFlight(g),
                  unresolved |-> Unresolved(g)]
       IN  calls' = [calls EXCEPT ![g] = Append(@, c)]
    /\ UNCHANGED <<dbReactions, nextRowId, reactions, rFetchReq, rFetchResp, rNotif, toasts, event, upVars, storeVars, phVars,
                   subVars, extVars>>

\* the store serves the write of call n of guest g
ApplyWrite(g, n) ==
    /\ n \in 1..Len(calls[g])
    /\ calls[g][n].pc = "sent"
    /\ LET c == calls[g][n] IN
       IF c.op = "insert"
       THEN /\ dbReactions' = InsertReaction(dbReactions, nextRowId, c.photo, c.emoji, c.ident)
            /\ calls' = [calls EXCEPT ![g][n].pc = "applied",
                                      ![g][n].result =
                                          IF UniqueOk(dbReactions, c.photo, c.emoji, c.ident)
                                          THEN "ok" ELSE "unique_violation"]
            /\ IF dbReactions' # dbReactions
               THEN /\ nextRowId' = nextRowId + 1
                    /\ rNotif' = NotifyAll(rNotif)
               ELSE /\ UNCHANGED <<nextRowId, rNotif>>
       ELSE /\ dbReactions' = DeleteReaction(dbReactions, c.id)
            /\ rNotif' = IF dbReactions' # dbReactions THEN NotifyAll(rNotif) ELSE rNotif
            /\ calls' = [calls EXCEPT ![g][n].pc = "applied", ![g][n].result = "ok"]
            /\ UNCHANGED nextRowId
    /\ UNCHANGED <<reactions, rFetchReq, rFetchResp, toasts, event, upVars, storeVars, phVars,
                   subVars, extVars>>

\* faulty variant: a rejected write is reported to the user
ReactionToasts_mut(t, result) ==
    IF result = "ok" THEN t ELSE Append(t, "Failed to save reaction")

\* what handleReaction shows when its write resolves: nothing, whatever the result
ReactionToasts(t, result) == t

\* faulty variant: the list is fetched again only after a write that took effect
ReactionRefetch_mut(k, result) == IF result = "ok" THEN k + 1 ELSE k

\* fetchReactions requests after the write resolves: one more, whatever the result
ReactionRefetch(k, result) == k + 1

\* handleReaction after the await: the result is not inspected, fetchReactions is called
ReturnCall(g, n) ==
    /\ n \in 1..Len(calls[g])
    /\ calls[g][n].pc = "applied"
    /\ calls' = [calls EXCEPT ![g][n].pc = "done"]
    /\ rFetchReq' = [rFetchReq EXCEPT ![g] = ReactionRefetch(@, calls[g][n].result)]
    /\ toasts' = [toasts EXCEPT ![g] = ReactionToasts(@, calls[g][n].result)]
    /\ UNCHANGED <<dbReactions, nextRowId, reactions, rFetchResp, rNotif, event, upVars, storeVars, phVars,
                   subVars, extVars>>

\* reactionsChannel handler: any change notification calls fetchReactions
OnReactionChange(g) ==
    /\ rNotif[g] > 0
    /\ rNotif' = [rNotif EXCEPT ![g] = @ - 1]
    /\ rFetchReq' = [rFetchReq EXCEPT ![g] = @ + 1]
    /\ UNCHANGED <<dbReactions, nextRowId, reactions, calls, rFetchResp, toasts, event, upVars, storeVars, phVars,
                   subVars, extVars>>

\* the store serves a fetchReactions request: select('*') over the whole table
ServeFetchReactions(g) ==
    /\ rFetchReq[g] > 0
    /\ rFetchReq' = [rFetchReq EXCEPT ![g] = @ - 1]
    /\ rFetchResp' = [rFetchResp EXCEPT ![g] = @ \cup {dbReactions}]
    /\ UNCHANGED <<dbReactions, nextRowId, reactions, calls, rNotif, toasts, event, upVars, storeVars, phVars,
                   subVars, extVars>>

\* fetchReactions after the await: setReactions(data)
ReceiveReactions(g) ==
    /\ \E snap \in rFetchResp[g] :
          /\ rFetchResp' = [rFetchResp EXCEPT ![g] = @ \ {snap}]
          /\ reactions' = [reactions EXCEPT ![g] = snap]
    /\ UNCHANGED <<dbReactions, nextRowId, calls, rFetchReq, rNotif, toasts, event, upVars, storeVars, phVars,
                   subVars, extVars>>

\* state after the view is mounted on an empty table: the reactions channel is
\* subscribed and the initial fetchReactions of the effect has resolved
InitReactionVars ==
    /\ dbReactions = {}
    /\ nextRowId = 1
    /\ reactions = [g \in Guests |-> {}]
    /\ calls = [g \in Guests |-> <<>>]
    /\ rFetchReq = [g \in Guests |-> 0]
    /\ rFetchResp = [g \in Guests |-> {}]
    /\ rNotif = [g \in Guests |-> 0]

InitToasts == toasts = [g \in Guests |-> <<>>]

NextReactions ==
    \/ \E g \in Guests, m \in Media, e \in EmojiSet : HandleReaction(g, m, e)
    \/ \E g \in Guests, n \in 1..MaxToggles : ApplyWrite(g, n)
    \/ \E g \in Guests, n \in 1..MaxToggles : ReturnCall(g, n)
    \/ \E g \in Guests : OnReactionChange(g)
    \/ \E g \in Guests : ServeFetchReactions(g)
    \/ \E g \in Guests : ReceiveReactions(g)


\* =========================================================== MEDIA CARD ==

\* the media items and emoji types whose cards are followed
BadgeMedia == <<"m1", "m2">>
BadgeEmoji == <<EMOJIS[1], EMOJIS[2]>>
GuestList  == <<"g1", "g2">>
EmojiTypes == {EMOJIS[j] : j \in 1..Len(EMOJIS)}

\* the rows a reactions table can hold for these: one per (media, emoji,
\* participant), as UNIQUE demands
BadgeRows ==
    {[id               |-> 4 * (i - 1) + 2 * (j - 1) + k,
      photo_id         |-> BadgeMedia[i],
      emoji            |-> BadgeEmoji[j],
      guest_identifier |-> guestId(GuestList[k])] :
        i \in 1..Len(BadgeMedia), j \in 1..Len(BadgeEmoji), k \in 1..Len(GuestList)}

\* reactions.filter(r => r.photo_id === media.id)
mediaReactions(list, m) == {r \in list : r.photo_id = m}

\* mediaReactions.reduce((acc, r) => { acc[r.emoji] = (acc[r.emoji] || 0) + 1 }, {})
RECURSIVE reactionCounts(_)
reactionCounts(rows) ==
    IF rows = {} THEN [e \in {} |-> 0]
    ELSE LET r   == CHOOSE x \in rows : TRUE
             acc == reactionCounts(rows \ {r})
         IN  [e \in DOMAIN acc \cup {r.emoji} |->
                 (IF e \in DOMAIN acc THEN acc[e] ELSE 0) + (IF e = r.emoji THEN 1 ELSE 0)]

\* reactionCounts[type] || 0
BadgeCount(acc, type) == IF type \in DOMAIN acc THEN acc[type] ELSE 0

NotRendered == <<>>

\* one render of the MediaCard of media m in the view of guest g: per emoji
\* button, the count shown and whether the button is drawn as reacted
RenderMediaCard(g, m) ==
    /\ LET acc == reactionCounts(mediaReactions(reactions[g], m)) IN
       rendered' = [rendered EXCEPT ![g][m] =
                       [type \in EmojiTypes |->
                           [count   |-> BadgeCount(acc, type),
                            reacted |-> hasReacted(g, m, type)]]]
    /\ UNCHANGED <<reactVars, toasts, event, upVars, storeVars, phVars, subVars, dlVars, ownVars,
                   apiVars, evtVars, dashVars, joinVars>>

\* =============================================================== UPLOAD ==

Null      == <<>>     \* SQL null; a present value v is held as <<v>>
NoEvent   == 0        \* `event` is null
Uploader  == "g1"     \* the guest session whose view is followed

\* MIME types of selectable files, as <<type, subtype>>
FileTypes == {<<"image", "jpeg">>, <<"video", "mp4">>}
Captions  == {"", "cake"}
Names     == {"", "Ann"}

\* file.type.startsWith('video/')
IsVideo(type) == type[1] = "video"

\* file.name.split('.').pop() of the i-th selected file
FileExt(type) == type[2]

\* s || null
OrNull(s) == IF s = "" THEN Null ELSE <<s>>

\* what the video element reports on loadedmetadata
LoadedMeta == [duration |-> <<3>>, width |-> <<640>>, height |-> <<480>>]
NoMeta     == [duration |-> Null, width |-> Null, height |-> Null]

\* `${event.id}/${Date.now()}-${Math.random()}.${fileExt}`: a key no other file gets
StorageKey(ev, b, i, type) == <<ev, b, i, FileExt(type)>>

ErrorToast(text, file) == [kind |-> "error", text |-> text, file |-> file]
SuccessToast(text)     == [kind |-> "success", text |-> text, file |-> 0]

\* faulty variant: the loop stops at the first failed upload
MoreFiles_mut(i, files, failed) == i < Len(files) /\ ~failed

\* does the for loop have another file after the i-th?
MoreFiles(i, files, failed) == i < Len(files)

\* faulty variant: the inputs are kept when a file of the batch failed
ClearedInput_mut(v, log) ==
    IF \E k \in 1..Len(log) : log[k] = "upload_failed" THEN v ELSE ""

\* setCaption('') / setUploaderName('') after the loop
ClearedInput(v, log) == ""

\* the rest of handleFileSelect after file upIdx is dealt with, given the
\* notifications shown so far and the outcome of the file: the next iteration,
\* or the code after the loop
Continue(t, outcome) ==
    LET log == Append(upLog, outcome) IN
    /\ upLog' = log
    /\ IF MoreFiles(upIdx, upFiles, outcome = "upload_failed")
       THEN /\ upIdx' = upIdx + 1
            /\ upPc' = "upload"
            /\ toasts' = [toasts EXCEPT ![Uploader] = t]
            /\ UNCHANGED <<isUploading, caption, uploaderName, fileInput>>
       ELSE /\ upPc' = "idle"
            /\ isUploading' = FALSE
            /\ caption' = ClearedInput(caption, log)
            /\ uploaderName' = ClearedInput(uploaderName, log)
            /\ fileInput' = <<>>
            /\ toasts' = [toasts EXCEPT ![Uploader] = Append(t, SuccessToast("Files uploaded!"))]
            /\ UNCHANGED upIdx

\* the user types into the caption input
SetCaption(v) ==
    /\ caption # v
    /\ caption' = v
    /\ UNCHANGED <<event, uploaderName, isUploading, fileInput, upFiles, upIdx, upPc,
                   upClosure, upMeta, upLog, batches, blobs, storeVars, toasts, reactVars, phVars,
                   subVars, extVars>>

\* the user types into the name input
SetUploaderName(v) ==
    /\ uploaderName # v
    /\ uploaderName' = v
    /\ UNCHANGED <<event, caption, isUploading, fileInput, upFiles, upIdx, upPc,
                   upClosure, upMeta, upLog, batches, blobs, storeVars, toasts, reactVars, phVars,
                   subVars, extVars>>

\* handleFileSelect up to its first await: the picker (enabled only while not
\* uploading) reports a selection
HandleFileSelect(files) ==
    /\ ~isUploading
    /\ batches < MaxBatches
    /\ ~(Len(files) = 0 \/ event = NoEvent)
    /\ isUploading' = TRUE
    /\ fileInput' = files
    /\ upFiles' = files
    /\ upIdx' = 1
    /\ upPc' = "upload"
    /\ upClosure' = [event |-> event, caption |-> caption, uploaderName |-> uploaderName]
    /\ upLog' = <<>>
    /\ batches' = batches + 1
    /\ UNCHANGED <<event, caption, uploaderName, upMeta, blobs, storeVars, toasts, reactVars, phVars,
                   subVars, extVars>>

\* storage.upload resolves with an error: notify, continue with the next file
UploadFails ==
    /\ upPc = "upload"
    /\ Continue(Append(toasts[Uploader], ErrorToast("Failed to upload", upIdx)), "upload_failed")
    /\ UNCHANGED <<event, upFiles, upClosure, upMeta, batches, blobs, storeVars, reactVars, phVars,
                   subVars, extVars>>

\* storage.upload resolves without error: the blob is stored; a video goes on
\* to the metadata promise, whose video element either fires loadedmetadata
\* or stays silent (the promise has no reject path: its executor only creates
\* the element and assigns an object URL of the File, so the catch is not
\* reached)
UploadSucceeds(meta) ==
    /\ upPc = "upload"
    /\ blobs' = blobs \cup {StorageKey(upClosure.event, batches, upIdx, upFiles[upIdx])}
    /\ IF IsVideo(upFiles[upIdx])
       THEN /\ upPc' = "meta"
            /\ upMeta' = meta
       ELSE /\ upPc' = "insert"
            /\ upMeta' = "none"
            /\ meta = "loads"
    /\ UNCHANGED <<event, caption, uploaderName, isUploading, fileInput, upFiles, upIdx,
                   upClosure, upLog, batches, storeVars, toasts, reactVars, phVars,
                   subVars, extVars>>

\* onloadedmetadata fires and resolves the promise
MetadataLoaded ==
    /\ upPc = "meta" /\ upMeta = "loads"
    /\ upPc' = "insert"
    /\ upMeta' = "loaded"
    /\ UNCHANGED <<event, caption, uploaderName, isUploading, fileInput, upFiles, upIdx,
                   upClosure, upLog, batches, blobs, storeVars, toasts, reactVars, phVars,
                   subVars, extVars>>

\* the row handleFileSelect inserts for the current file
UploadRow(id, now) ==
    LET type == upFiles[upIdx]
        md   == IF upMeta = "loaded" THEN LoadedMeta ELSE NoMeta
    IN  [id             |-> id,
         created_at     |-> now,
         event_id       |-> upClosure.event,
         storage_path   |-> StorageKey(upClosure.event, batches, upIdx, type),
         uploader_name  |-> OrNull(upClosure.uploaderName),
         caption        |-> OrNull(upClosure.caption),
         file_type      |-> type,
         is_video       |-> IsVideo(type),
         video_duration |-> md.duration,
         video_width    |-> md.width,
         video_height   |-> md.height,
         file_extension |-> <<".", FileExt(type)>>]

\* the photos insert resolves without error (the change feed of the insert is
\* followed in SpecPhotos)
InsertSucceeds ==
    /\ upPc = "insert"
    /\ \E ev \in dbEvents : ev.id = upClosure.event
    /\ dbPhotos' = dbPhotos \cup {UploadRow(nextPhotoId, clock + 1)}
    /\ nextPhotoId' = nextPhotoId + 1
    /\ clock' = clock + 1
    /\ Continue(toasts[Uploader], "saved")
    /\ UNCHANGED <<event, upFiles, upClosure, upMeta, batches, blobs, reactVars, phVars,
                   subVars, extVars>>

\* faulty variant: the blob of the file whose insert failed is removed again
KeptBlobs_mut(keys, key) == keys \ {key}

\* the bucket after the insert for the blob `key` failed: handleFileSelect
\* sends no remove
KeptBlobs(keys, key) == keys

\* the photos insert resolves with an error: notify, nothing is undone
InsertFails ==
    /\ upPc = "insert"
    /\ blobs' = KeptBlobs(blobs, StorageKey(upClosure.event, batches, upIdx, upFiles[upIdx]))
    /\ Continue(Append(toasts[Uploader], ErrorToast("Failed to save upload", 0)), "save_failed")
    /\ UNCHANGED <<event, upFiles, upClosure, upMeta, batches, storeVars, reactVars, phVars,
                   subVars, extVars>>

Batches == UNION {[1..n -> FileTypes] : n \in 0..MaxFiles}

\* ========================================================= BATCH EXPORT ==

\* the Media values handed to the hook: with a stored extension, and without
\* one as a video and as an image
DlKinds ==
    {[storage_path |-> "a", file_extension |-> <<".", "png">>, is_video |-> FALSE],
     [storage_path |-> "b", file_extension |-> Null,           is_video |-> TRUE],
     [storage_path |-> "c", file_extension |-> Null,           is_video |-> FALSE]}

DlLists == UNION {[1..n -> DlKinds] : n \in 0..MaxMedias}

\* media.file_extension || (media.is_video ? '.mp4' : '.jpg')
DownloadExt(media) ==
    IF media.file_extension # Null THEN media.file_extension
    ELSE IF media.is_video THEN <<".", "mp4">> ELSE <<".", "jpg">>

\* faulty variant: entries are numbered by their place in the zip
EntryPosition_mut(i, arch) == Cardinality(arch) + 1

\* the number in the entry name of medias[i]: i + 1
EntryPosition(i, arch) == i + 1

\* `media-${i + 1}${ext}`
FileName(pos, ext) == <<"media-", pos, ext>>

\* faulty variant: the loop reports the item it starts as completed
ProgressAt_mut(i, total) == [current |-> i + 1, total |-> total]

\* setProgress({ current: i, total: medias.length })
ProgressAt(i, total) == [current |-> i, total |-> total]

\* faulty variant: the finally block resets isDownloading only
DownloadAborts_mut ==
    /\ dlPc' = "failed"
    /\ dlToasts' = Append(dlToasts, ErrorToast("Failed to download files as zip", 0))
    /\ isDownloading' = FALSE
    /\ UNCHANGED progress

\* the catch and finally of the hook after `error` was thrown inside the outer try
DownloadAborts ==
    /\ dlPc' = "failed"
    /\ dlToasts' = Append(dlToasts, ErrorToast("Failed to download files as zip", 0))
    /\ isDownloading' = FALSE
    /\ progress' = Null

\* the for loop from the top of iteration i to its await, or, past the last
\* item, the code after the loop up to generateAsync
LoopFrom(i) ==
    IF i < Len(dlMedias')
    THEN /\ dlIdx' = i
         /\ progress' = ProgressAt(i, Len(dlMedias'))
         /\ dlPc' = "fetch"
    ELSE /\ dlIdx' = i
         /\ progress' = [current |-> Len(dlMedias'), total |-> Len(dlMedias')]
         /\ dlPc' = "generate"

\* downloadMultiple up to the await of import('jszip'); one call is followed
DownloadMultiple(medias) ==
    /\ dlPc = "idle"
    /\ isDownloading' = TRUE
    /\ dlMedias' = medias
    /\ dlPc' = "import"
    /\ UNCHANGED <<progress, dlIdx, dlLog, archive, offered, dlToasts,
                   reactVars, toasts, event, upVars, storeVars, phVars, subVars, cardVars, ownVars,
                   apiVars, evtVars, dashVars, joinVars, sglVars>>

\* the import resolves: the zip and its media folder are created, the loop starts
ImportResolves ==
    /\ dlPc = "import"
    /\ archive' = {}
    /\ dlLog' = <<>>
    /\ UNCHANGED dlMedias
    /\ LoopFrom(0)
    /\ UNCHANGED <<isDownloading, offered, dlToasts,
                   reactVars, toasts, event, upVars, storeVars, phVars, subVars, cardVars, ownVars,
                   apiVars, evtVars, dashVars, joinVars, sglVars>>

\* the import rejects
ImportFails ==
    /\ dlPc = "import"
    /\ DownloadAborts
    /\ UNCHANGED <<dlMedias, dlIdx, dlLog, archive, offered,
                   reactVars, toasts, event, upVars, storeVars, phVars, subVars, cardVars, ownVars,
                   apiVars, evtVars, dashVars, joinVars, sglVars>>

\* fetch(url) and response.blob() of the current item resolve (ok), or one of
\* them rejects and the inner catch logs it; then the next iteration
FetchItem(ok) ==
    /\ dlPc = "fetch"
    /\ LET media == dlMedias[dlIdx + 1] IN
       archive' = IF ok
                  THEN archive \cup {FileName(EntryPosition(dlIdx, archive), DownloadExt(media))}
                  ELSE archive
    /\ dlLog' = Append(dlLog, IF ok THEN "added" ELSE "skipped")
    /\ UNCHANGED dlMedias
    /\ LoopFrom(dlIdx + 1)
    /\ UNCHANGED <<isDownloading, offered, dlToasts,
                   reactVars, toasts, event, upVars, storeVars, phVars, subVars, cardVars, ownVars,
                   apiVars, evtVars, dashVars, joinVars, sglVars>>

\* generateAsync resolves: the zip is handed to the browser, success is shown,
\* finally resets the hook's state
GenerateResolves ==
    /\ dlPc = "generate"
    /\ offered' = <<archive>>
    /\ dlToasts' = Append(dlToasts, [kind |-> "success", text |-> "Downloaded files as zip",
                                     file |-> Len(dlMedias)])
    /\ isDownloading' = FALSE
    /\ progress' = Null
    /\ dlPc' = "done"
    /\ UNCHANGED <<dlMedias, dlIdx, dlLog, archive,
                   reactVars, toasts, event, upVars, storeVars, phVars, subVars, cardVars, ownVars,
                   apiVars, evtVars, dashVars, joinVars, sglVars>>

\* generateAsync rejects
GenerateFails ==
    /\ dlPc = "generate"
    /\ DownloadAborts
    /\ UNCHANGED <<dlMedias, dlIdx, dlLog, archive, offered,
                   reactVars, toasts, event, upVars, storeVars, phVars, subVars, cardVars, ownVars,
                   apiVars, evtVars, dashVars, joinVars, sglVars>>

\* `media-${timestamp}${ext}`: the timestamp is the clock's reading at the call
SingleName(media) == <<"media-", "timestamp", DownloadExt(media)>>

\* the other variables of the hook's module and of the rest of the program
\* that downloadSingle leaves alone
singleFrame == <<progress, dlMedias, dlIdx, dlPc, dlLog, archive, offered,
                 reactVars, toasts, event, upVars, storeVars, phVars, subVars, cardVars,
                 ownVars, apiVars, evtVars, dashVars, joinVars>>

\* downloadSingle up to the await of fetch(url); one call is followed, and it
\* may start while a downloadMultiple of the same hook is suspended
DownloadSingle(media) ==
    /\ dsPc = "idle"
    /\ isDownloading' = TRUE
    /\ dsMedia' = <<media>>
    /\ dsPc' = "fetch"
    /\ UNCHANGED <<dlToasts, dsOffered, singleFrame>>

\* fetch(url) and response.blob() resolve: the blob is handed to the browser,
\* success is shown, finally resets isDownloading
SingleResolves ==
    /\ dsPc = "fetch"
    /\ dsOffered' = Append(dsOffered, SingleName(dsMedia[1]))
    /\ dlToasts' = Append(dlToasts, SuccessToast("Downloaded successfully"))
    /\ isDownloading' = FALSE
    /\ dsPc' = "done"
    /\ UNCHANGED <<dsMedia, singleFrame>>

\* fetch(url) or response.blob() rejects: the catch shows the error and
\* rethrows, finally resets isDownloading
SingleFails ==
    /\ dsPc = "fetch"
    /\ dlToasts' = Append(dlToasts, ErrorToast("Failed to download file", 0))
    /\ isDownloading' = FALSE
    /\ dsPc' = "failed"
    /\ UNCHANGED <<dsMedia, dsOffered, singleFrame>>

\* =========================================================== MEDIA LIST ==

\* the events the store holds when a behaviour starts: event k carries the
\* code EventCodes[k]; a code is the tuple of its characters
EventCodes == << <<"A", "B", "1", "2", "C", "D">>, <<"E", "F", "3", "4", "A", "B">> >>
EventIds   == 1..Len(EventCodes)
UnknownCode == <<"Z", "Z", "9", "9", "Z", "Z">>
RouteCodes == {EventCodes[k] : k \in EventIds} \cup {UnknownCode}

\* select id ... from events where event_code = c, .single(): the ids found
EventsByCode(c) == {ev.id : ev \in {x \in dbEvents : x.event_code = c}}

\* is there an events row with this id? (what REFERENCES public.events(id)
\* demands of photos.event_id)
EventExists(k) == \E ev \in dbEvents : ev.id = k

\* rows of `rows` ordered by created_at, descending
RECURSIVE OrderDesc(_)
OrderDesc(rows) ==
    IF rows = {} THEN <<>>
    ELSE LET top == CHOOSE r \in rows : \A q \in rows : q.created_at <= r.created_at
         IN  <<top>> \o OrderDesc(rows \ {top})

\* select * from photos where event_id = ev order by created_at desc
SelectPhotos(rows, ev) == OrderDesc({r \in rows : r.event_id = ev})

\* a row some session's upload inserts for event ev
GuestPhotoRow(id, now, ev) ==
    [id             |-> id,
     created_at     |-> now,
     event_id       |-> ev,
     storage_path   |-> <<ev, 0, id, "jpeg">>,
     uploader_name  |-> Null,
     caption        |-> Null,
     file_type      |-> <<"image", "jpeg">>,
     is_video       |-> FALSE,
     video_duration |-> Null,
     video_width    |-> Null,
     video_height   |-> Null,
     file_extension |-> <<".", "jpeg">>]

\* setPhotos(prev => [payload.new, ...prev])
PrependPhoto(row, prev) == <<row>> \o prev

\* fetchPhotos as called from the effect and from the DELETE handler: it reads
\* the `event` its closure captured and returns before any request when that
\* is null
FetchPhotosRequests(req, ev) ==
    IF ev = NoEvent THEN req ELSE [req EXCEPT ![ev] = @ + 1]

\* the channels one run of the effect subscribes for event code c
ChannelsFor(c) ==
    {[table |-> "photos", code |-> c], [table |-> "reactions", code |-> c]}

\* faulty variant: the cleanup leaves the channels subscribed
RemoveChannels_mut(chs, c) == chs

\* the cleanup of the effect that ran for event code c: removeChannel of both
RemoveChannels(chs, c) == chs \ ChannelsFor(c)

\* is a photos channel subscribed to the change feed?
PhotosSubscribed == \E ch \in channels : ch.table = "photos"

\* what the change feed of the reactions table adds to the notifications in
\* flight: one per subscribed view
ReactionFeed(n) ==
    IF \E ch \in channels : ch.table = "reactions" THEN NotifyAll(n) ELSE n

\* faulty variant: the reference is declared without ON DELETE CASCADE
CascadeReactions_mut(rows, gone) == rows

\* reactions.photo_id REFERENCES public.photos(id) ON DELETE CASCADE: the
\* reactions rows left when the photos rows `gone` are deleted
CascadeReactions(rows, gone) == {r \in rows : ~\E p \in gone : p.id = r.photo_id}

\* photos.event_id REFERENCES public.events(id) ON DELETE CASCADE: the photos
\* rows left when the events rows `gone` are deleted
CascadePhotos(rows, gone) == {r \in rows : ~\E ev \in gone : ev.id = r.event_id}

\* a delete on photos (dbPhotos to dbPhotos') takes the reactions of the
\* deleted rows with it; the reactions change feed reports them
DeletePhotoCascade ==
    /\ dbReactions' = CascadeReactions(dbReactions, dbPhotos \ dbPhotos')
    /\ rNotif' = IF dbReactions' # dbReactions THEN ReactionFeed(rNotif) ELSE rNotif

\* the variables of the reactions group a delete on photos leaves alone
reactClient == <<nextRowId, reactions, calls, rFetchReq, rFetchResp>>

\* fetchEvent after the await: setEvent(data), or the not-found notification
\* (a response that arrives after the view is left sets no state)
ReceiveEvent(c) ==
    /\ mounted
    /\ c \in evFetch
    /\ evFetch' = evFetch \ {c}
    /\ IF EventsByCode(c) = {}
       THEN /\ toasts' = [toasts EXCEPT ![Uploader] = Append(@, ErrorToast("Event not found", 0))]
            /\ UNCHANGED event
       ELSE /\ event' = CHOOSE k \in EventsByCode(c) : TRUE
            /\ UNCHANGED toasts
    /\ UNCHANGED <<eventCode, photos, effEvent, switches, phFetchReq, phFetchResp, phNotif,
                   storeVars, upVars, reactVars, subVars, extVars>>

\* the route parameter changes: the cleanup of the effect removes the channels,
\* the effect runs again with the closures of the current render
ChangeEventCode(c) ==
    /\ mounted
    /\ c # eventCode
    /\ switches < MaxSwitches
    /\ switches' = switches + 1
    /\ eventCode' = c
    /\ phNotif' = <<>>
    /\ effEvent' = event
    /\ evFetch' = evFetch \cup {c}
    /\ phFetchReq' = FetchPhotosRequests(phFetchReq, event)
    /\ channels' = RemoveChannels(channels, eventCode) \cup ChannelsFor(c)
    /\ UNCHANGED <<event, photos, phFetchResp, toasts, storeVars, upVars, reactVars,
                   mounted, extVars>>

\* the view is left (unmount): the cleanup of the effect removes the channels
LeaveView ==
    /\ mounted
    /\ mounted' = FALSE
    /\ channels' = RemoveChannels(channels, eventCode)
    /\ phNotif' = <<>>
    /\ UNCHANGED <<event, eventCode, photos, effEvent, switches, evFetch, phFetchReq,
                   phFetchResp, toasts, storeVars, upVars, reactVars, extVars>>

\* a session's upload stores a blob and inserts a photo row for event ev; the INSERT binding of
\* photosChannel carries the filter `event_id=eq.` with no value, which the
\* change feed either takes to match the row or not
StoreInsertPhoto(ev, delivered) ==
    /\ nextPhotoId <= MaxPhotos
    /\ EventExists(ev)
    /\ delivered => PhotosSubscribed
    /\ LET row == GuestPhotoRow(nextPhotoId, clock + 1, ev) IN
       /\ blobs' = blobs \cup {row.storage_path}
       /\ dbPhotos' = dbPhotos \cup {row}
       /\ phNotif' = IF delivered
                     THEN Append(phNotif, [type |-> "INSERT", new |-> row])
                     ELSE phNotif
    /\ nextPhotoId' = nextPhotoId + 1
    /\ clock' = clock + 1
    /\ UNCHANGED <<event, eventCode, photos, effEvent, switches, evFetch, phFetchReq,
                   phFetchResp, toasts, caption, uploaderName, isUploading, fileInput,
                   upFiles, upIdx, upPc, upClosure, upMeta, upLog, batches, reactVars,
                   subVars, extVars>>

\* the owner deletes a photo row; the DELETE binding has no filter
StoreDeletePhoto(id) ==
    /\ \E r \in dbPhotos : r.id = id
    /\ dbPhotos' = {r \in dbPhotos : r.id # id}
    /\ DeletePhotoCascade
    /\ phNotif' = IF PhotosSubscribed
                  THEN Append(phNotif, [type |-> "DELETE", new |-> Null])
                  ELSE phNotif
    /\ UNCHANGED <<nextPhotoId, clock, event, eventCode, photos, effEvent, switches, evFetch,
                   phFetchReq, phFetchResp, toasts, upVars, reactClient,
                   subVars, extVars>>

\* photosChannel INSERT handler
OnPhotoInsert ==
    /\ phNotif # <<>>
    /\ Head(phNotif).type = "INSERT"
    /\ phNotif' = Tail(phNotif)
    /\ photos' = PrependPhoto(Head(phNotif).new, photos)
    /\ UNCHANGED <<event, eventCode, effEvent, switches, evFetch, phFetchReq, phFetchResp,
                   toasts, storeVars, upVars, reactVars, subVars, extVars>>

\* photosChannel DELETE handler: fetchPhotos()
OnPhotoDelete ==
    /\ phNotif # <<>>
    /\ Head(phNotif).type = "DELETE"
    /\ phNotif' = Tail(phNotif)
    /\ phFetchReq' = FetchPhotosRequests(phFetchReq, effEvent)
    /\ UNCHANGED <<event, eventCode, photos, effEvent, switches, evFetch, phFetchResp,
                   toasts, storeVars, upVars, reactVars, subVars, extVars>>

\* the store serves a fetchPhotos request for event ev
ServeFetchPhotos(ev) ==
    /\ phFetchReq[ev] > 0
    /\ phFetchReq' = [phFetchReq EXCEPT ![ev] = @ - 1]
    /\ phFetchResp' = phFetchResp \cup {SelectPhotos(dbPhotos, ev)}
    /\ UNCHANGED <<event, eventCode, photos, effEvent, switches, evFetch, phNotif,
                   toasts, storeVars, upVars, reactVars, subVars, extVars>>

\* fetchPhotos after the await: setPhotos(data)
ReceivePhotos ==
    /\ mounted
    /\ \E snap \in phFetchResp :
          /\ phFetchResp' = phFetchResp \ {snap}
          /\ photos' = snap
    /\ UNCHANGED <<event, eventCode, effEvent, switches, evFetch, phFetchReq, phNotif,
                   toasts, storeVars, upVars, reactVars, subVars, extVars>>

\* =================================================== STORE ACCESS RULES ==

\* auth.users: the accounts; auth.uid() of a request without a session is null
Users == {"u1", "u2"}
Anon  == "anon"
Callers == Users \cup {Anon}

\* events.user_id of the events the store holds when a behaviour starts
EventOwner == <<"u1", "u2">>

\* events.user_id of the events row with id k
OwnerOfEvent(k) == (CHOOSE ev \in dbEvents : ev.id = k).user_id

\* faulty variant: the delete policy lets every caller through
PhotosDeletePolicy_mut(uid, row) == TRUE

\* "Event owners can delete photos" ON public.photos FOR DELETE
PhotosDeletePolicy(uid, row) ==
    \E ev \in dbEvents : ev.id = row.event_id /\ uid # Anon /\ ev.user_id = uid

\* "Anyone can insert photos" ON public.photos FOR INSERT
PhotosInsertPolicy(uid, row) == TRUE

\* "Anyone can insert reactions" ON public.reactions FOR INSERT
ReactionsInsertPolicy(uid, row) == TRUE

\* "Anyone can delete their own reactions" ON public.reactions FOR DELETE
ReactionsDeletePolicy(uid, row) == TRUE

\* "Event owners can delete photos" ON storage.objects FOR DELETE: the object
\* is named by a photos row of an event of the caller
StorageDeletePolicy(uid, key, rows) ==
    \E r \in rows : \E ev \in dbEvents :
        r.storage_path = key /\ r.event_id = ev.id /\ uid # Anon /\ ev.user_id = uid

\* delete from photos where id = ..., as uid: rows the policy hides stay
DeletePhotoAs(uid, rows, id) ==
    {r \in rows : ~(r.id = id /\ PhotosDeletePolicy(uid, r))}

\* storage remove([key]) as uid
RemoveBlobAs(uid, keys, key, rows) ==
    IF StorageDeletePolicy(uid, key, rows) THEN keys \ {key} ELSE keys

\* "Users can create their own events" ON public.events FOR INSERT
EventsInsertPolicy(uid, row) == uid # Anon /\ uid = row.user_id

\* "Users can delete their own events" ON public.events FOR DELETE
EventsDeletePolicy(uid, row) == uid # Anon /\ uid = row.user_id

\* faulty variant: the column is declared without UNIQUE
CodeFree_mut(rows, c) == TRUE

\* event_code TEXT NOT NULL UNIQUE: may a row with this code be inserted?
CodeFree(rows, c) == ~\E ev \in rows : ev.event_code = c

\* insert into events, as uid: the table afterwards (unchanged when the policy
\* or the constraint rejects the row)
InsertEventAs(uid, rows, row) ==
    IF EventsInsertPolicy(uid, row) /\ CodeFree(rows, row.event_code)
    THEN rows \cup {row}
    ELSE rows

\* delete from events where id = k, as uid: rows the policy hides stay
DeleteEventAs(uid, rows, k) ==
    {ev \in rows : ~(ev.id = k /\ EventsDeletePolicy(uid, ev))}

\* a request as the store saw it: allowed is the verdict of the policies,
\* valid says whether the row an insert carries references an existing row,
\* cascade counts the photos and the reactions rows that went with the rows
\* the request deleted
NoRequest == [caller |-> Anon, op |-> "none", allowed |-> FALSE, rows |-> {},
              valid |-> TRUE, cascade |-> <<0, 0>>]

\* caller uploads a blob and inserts a photos row for event ev
RequestInsertPhoto(caller, ev, delivered) ==
    /\ nextPhotoId <= MaxPhotos
    /\ delivered => PhotosSubscribed
    /\ LET row == GuestPhotoRow(nextPhotoId, clock + 1, ev)
           ok  == PhotosInsertPolicy(caller, row)
           fk  == EventExists(ev)
       IN  /\ blobs' = blobs \cup {row.storage_path}
           /\ dbPhotos' = IF ok /\ fk THEN dbPhotos \cup {row} ELSE dbPhotos
           /\ phNotif' = IF ok /\ fk /\ delivered
                         THEN Append(phNotif, [type |-> "INSERT", new |-> row])
                         ELSE phNotif
           /\ lastReq' = [caller |-> caller, op |-> "insert_photo", allowed |-> ok,
                          rows |-> {row}, valid |-> fk, cascade |-> <<0, 0>>]
    /\ nextPhotoId' = nextPhotoId + 1
    /\ clock' = clock + 1
    /\ UNCHANGED <<event, caption, uploaderName, isUploading, fileInput, upFiles, upIdx, upPc,
                   upClosure, upMeta, upLog, batches, eventCode, photos, effEvent, switches,
                   evFetch, phFetchReq, phFetchResp, toasts, reactVars, subVars, cardVars,
                   dlVars, ownVars, evtVars, dashVars, joinVars>>

\* caller asks to delete the photos row with this id
RequestDeletePhoto(caller, id) ==
    /\ \E r \in dbPhotos : r.id = id
    /\ dbPhotos' = DeletePhotoAs(caller, dbPhotos, id)
    /\ DeletePhotoCascade
    /\ phNotif' = IF dbPhotos' # dbPhotos /\ PhotosSubscribed
                  THEN Append(phNotif, [type |-> "DELETE", new |-> Null])
                  ELSE phNotif
    /\ lastReq' = [caller |-> caller, op |-> "delete_photo",
                   allowed |-> dbPhotos' # dbPhotos,
                   rows |-> {r \in dbPhotos : r.id = id}, valid |-> TRUE,
                   cascade |-> <<0, Cardinality(dbReactions \ dbReactions')>>]
    /\ UNCHANGED <<nextPhotoId, clock, event, upVars, eventCode, photos, effEvent, switches,
                   evFetch, phFetchReq, phFetchResp, toasts, reactClient, subVars, cardVars,
                   dlVars, ownVars, evtVars, dashVars, joinVars>>

\* caller asks to insert a reactions row for the photos row m, carrying
\* identifier p; photo_id REFERENCES public.photos(id)
RequestInsertReaction(caller, m, e, p) ==
    /\ nextRowId <= MaxToggles
    /\ LET row == [id |-> nextRowId, photo_id |-> m, emoji |-> e, guest_identifier |-> p]
           ok  == ReactionsInsertPolicy(caller, row)
           fk  == \E r \in dbPhotos : r.id = m
       IN  /\ dbReactions' = IF ok /\ fk THEN InsertReaction(dbReactions, nextRowId, m, e, p)
                              ELSE dbReactions
           /\ lastReq' = [caller |-> caller, op |-> "insert_reaction", allowed |-> ok,
                          rows |-> {row}, valid |-> fk, cascade |-> <<0, 0>>]
    /\ nextRowId' = nextRowId + 1
    /\ rNotif' = IF dbReactions' # dbReactions THEN ReactionFeed(rNotif) ELSE rNotif
    /\ UNCHANGED <<reactions, calls, rFetchReq, rFetchResp, toasts, event, upVars, storeVars,
                   phVars, subVars, cardVars, dlVars, ownVars, evtVars, dashVars, joinVars>>

\* caller asks to delete the reactions row with this id
RequestDeleteReaction(caller, id) ==
    /\ \E r \in dbReactions : r.id = id
    /\ LET hit == {r \in dbReactions : r.id = id /\ ReactionsDeletePolicy(caller, r)} IN
       /\ dbReactions' = dbReactions \ hit
       /\ lastReq' = [caller |-> caller, op |-> "delete_reaction", allowed |-> hit # {},
                      rows |-> {r \in dbReactions : r.id = id}, valid |-> TRUE,
                      cascade |-> <<0, 0>>]
    /\ rNotif' = IF dbReactions' # dbReactions THEN ReactionFeed(rNotif) ELSE rNotif
    /\ UNCHANGED <<nextRowId, reactions, calls, rFetchReq, rFetchResp, toasts, event, upVars,
                   storeVars, phVars, subVars, cardVars, dlVars, ownVars, evtVars, dashVars, joinVars>>

\* caller asks to delete the events row with id k: its photos go with it, and
\* their reactions with them
RequestDeleteEvent(caller, k) ==
    /\ EventExists(k)
    /\ dbEvents' = DeleteEventAs(caller, dbEvents, k)
    /\ dbPhotos' = CascadePhotos(dbPhotos, dbEvents \ dbEvents')
    /\ DeletePhotoCascade
    /\ phNotif' = IF PhotosSubscribed
                  THEN phNotif \o [i \in 1..Cardinality(dbPhotos \ dbPhotos') |->
                                      [type |-> "DELETE", new |-> Null]]
                  ELSE phNotif
    /\ lastReq' = [caller |-> caller, op |-> "delete_event",
                   allowed |-> dbEvents' # dbEvents,
                   rows |-> {ev \in dbEvents : ev.id = k}, valid |-> TRUE,
                   cascade |-> <<Cardinality(dbPhotos \ dbPhotos'),
                                 Cardinality(dbReactions \ dbReactions')>>]
    /\ UNCHANGED <<nextEventId, nextPhotoId, clock, event, upVars, eventCode, photos, effEvent,
                   switches, evFetch, phFetchReq, phFetchResp, toasts, reactClient, subVars,
                   cardVars, dlVars, ownVars, dashVars, joinVars>>

\* =========================================================== OWNER VIEW ==

\* useParams().eventId of the owner view
OwnerRoute == 1

NoTarget == [id |-> 0, path |-> <<>>, rowDeleted |-> FALSE]

\* the session of the owner view's browser is restored: useAuth reports user u
AuthLoaded(u) ==
    /\ user = Anon
    /\ user' = u
    /\ UNCHANGED <<ovPc, ovUser, isOwner, ovPhotos, ovFetchReq, ovFetchResp, delPc, delTarget,
                   deletes, ovToasts, reactVars, toasts, event, upVars, storeVars, phVars,
                   subVars, cardVars, dlVars, apiVars, evtVars, dashVars, joinVars>>

\* the owner view is opened: its effect calls fetchEvent and fetchPhotos (and
\* fetchReactions, whose list no handler followed here reads)
MountEventView ==
    /\ ovPc = "unmounted"
    /\ ovPc' = "loading"
    /\ ovUser' = user
    /\ ovFetchReq' = ovFetchReq + 1
    /\ UNCHANGED <<user, isOwner, ovPhotos, ovFetchResp, delPc, delTarget, deletes, ovToasts,
                   reactVars, toasts, event, upVars, storeVars, phVars, subVars, cardVars,
                   dlVars, apiVars, evtVars, dashVars, joinVars>>

\* fetchEvent after the await: setEvent(data); setIsOwner(user?.id === data.user_id)
ReceiveOwnerEvent ==
    /\ ovPc = "loading"
    /\ ovPc' = "loaded"
    /\ isOwner' = (ovUser # Anon /\ ovUser = OwnerOfEvent(OwnerRoute))
    /\ UNCHANGED <<user, ovUser, ovPhotos, ovFetchReq, ovFetchResp, delPc, delTarget, deletes,
                   ovToasts, reactVars, toasts, event, upVars, storeVars, phVars, subVars,
                   cardVars, dlVars, apiVars, evtVars, dashVars, joinVars>>

\* the store serves a fetchPhotos request of the owner view
ServeOwnerPhotos ==
    /\ ovFetchReq > 0
    /\ ovFetchReq' = ovFetchReq - 1
    /\ ovFetchResp' = ovFetchResp \cup {SelectPhotos(dbPhotos, OwnerRoute)}
    /\ UNCHANGED <<user, ovPc, ovUser, isOwner, ovPhotos, delPc, delTarget, deletes, ovToasts,
                   reactVars, toasts, event, upVars, storeVars, phVars, subVars, cardVars,
                   dlVars, apiVars, evtVars, dashVars, joinVars>>

\* fetchPhotos of the owner view after the await: setPhotos(data)
ReceiveOwnerPhotos ==
    /\ \E snap \in ovFetchResp :
          /\ ovFetchResp' = ovFetchResp \ {snap}
          /\ ovPhotos' = snap
    /\ UNCHANGED <<user, ovPc, ovUser, isOwner, ovFetchReq, delPc, delTarget, deletes, ovToasts,
                   reactVars, toasts, event, upVars, storeVars, phVars, subVars, cardVars,
                   dlVars, apiVars, evtVars, dashVars, joinVars>>

\* handleDeletePhoto up to its first await: the delete button of the i-th card
\* (drawn when the event is loaded and isOwner holds) is clicked and the
\* confirm dialog accepted; one call runs at a time
HandleDeletePhoto(i) ==
    /\ ovPc = "loaded" /\ isOwner
    /\ i \in 1..Len(ovPhotos)
    /\ delPc = "idle"
    /\ deletes < MaxDeletes
    /\ deletes' = deletes + 1
    /\ delTarget' = [id |-> ovPhotos[i].id, path |-> ovPhotos[i].storage_path,
                     rowDeleted |-> FALSE]
    /\ delPc' = "row"
    /\ UNCHANGED <<user, ovPc, ovUser, isOwner, ovPhotos, ovFetchReq, ovFetchResp, ovToasts,
                   reactVars, toasts, event, upVars, storeVars, phVars, subVars, cardVars,
                   dlVars, apiVars, evtVars, dashVars, joinVars>>

\* the photos delete resolves without error: the store has applied it under
\* the delete policy, for the session's user; handleDeletePhoto goes on to
\* the storage remove
RowDeleteResolves ==
    /\ delPc = "row"
    /\ dbPhotos' = DeletePhotoAs(user, dbPhotos, delTarget.id)
    /\ DeletePhotoCascade
    /\ delTarget' = [delTarget EXCEPT !.rowDeleted = dbPhotos' # dbPhotos]
    /\ phNotif' = IF dbPhotos' # dbPhotos /\ PhotosSubscribed
                  THEN Append(phNotif, [type |-> "DELETE", new |-> Null])
                  ELSE phNotif
    /\ delPc' = "blob"
    /\ UNCHANGED <<user, ovPc, ovUser, isOwner, ovPhotos, ovFetchReq, ovFetchResp, deletes,
                   ovToasts, nextPhotoId, clock, event, upVars, eventCode, photos, effEvent,
                   switches, evFetch, phFetchReq, phFetchResp, toasts, reactClient, subVars,
                   cardVars, dlVars, apiVars, evtVars, dashVars, joinVars>>

\* the photos delete resolves with an error: notify and return
RowDeleteFails ==
    /\ delPc = "row"
    /\ delPc' = "idle"
    /\ ovToasts' = Append(ovToasts, ErrorToast("Failed to delete photo", 0))
    /\ UNCHANGED <<user, ovPc, ovUser, isOwner, ovPhotos, ovFetchReq, ovFetchResp, delTarget,
                   deletes, reactVars, toasts, event, upVars, storeVars, phVars, subVars,
                   cardVars, dlVars, apiVars, evtVars, dashVars, joinVars>>

\* the storage remove resolves (its result is not looked at): the store has
\* applied it under the storage delete policy; success is shown and
\* fetchPhotos called
BlobRemoveResolves ==
    /\ delPc = "blob"
    /\ blobs' = RemoveBlobAs(user, blobs, delTarget.path, dbPhotos)
    /\ ovToasts' = Append(ovToasts, SuccessToast("Photo deleted"))
    /\ ovFetchReq' = ovFetchReq + 1
    /\ delPc' = "idle"
    /\ UNCHANGED <<user, ovPc, ovUser, isOwner, ovPhotos, ovFetchResp, delTarget, deletes,
                   event, caption, uploaderName, isUploading, fileInput, upFiles, upIdx, upPc,
                   upClosure, upMeta, upLog, batches, storeVars, phVars, toasts, reactVars,
                   subVars, cardVars, dlVars, apiVars, evtVars, dashVars, joinVars>>

\* ============================================================ DASHBOARD ==

\* text is held as the tuple of its characters
Whitespace == {" ", "\t"}

\* String.prototype.trim: the text without its leading and trailing whitespace
RECURSIVE TrimStart(_)
TrimStart(t) ==
    IF t # <<>> /\ Head(t) \in Whitespace THEN TrimStart(Tail(t)) ELSE t

RECURSIVE TrimEnd(_)
TrimEnd(t) ==
    IF t # <<>> /\ t[Len(t)] \in Whitespace THEN TrimEnd(SubSeq(t, 1, Len(t) - 1)) ELSE t

Trim(t) == TrimEnd(TrimStart(t))

\* what the title input can hold
Titles == {<<>>, <<" ">>, <<"P">>, <<" ", "Q", " ">>}

\* codes generate_event_code can come up with besides the ones in the table:
\* six characters of an upper-cased md5 digest
FreshCodes == {<<"0", "0", "F", "F", "0", "0">>, <<"1", "2", "3", "4", "5", "6">>}
CodeSpace  == RouteCodes \cup FreshCodes

\* SELECT EXISTS(SELECT 1 FROM public.events WHERE event_code = code)
CodeExists(rows, c) == \E ev \in rows : ev.event_code = c

\* "Users can view their own events" ON public.events FOR SELECT
EventsSelectOwn(uid, row) == uid # Anon /\ uid = row.user_id

\* "Anyone can view events by code" ON public.events FOR SELECT
EventsSelectByCode(uid, row) == TRUE

\* the SELECT policies of events; a row is visible when one of them admits it
EventsSelectPolicy(uid, row) == EventsSelectOwn(uid, row) \/ EventsSelectByCode(uid, row)

\* select * from events, as uid (the list is held as the set of its rows)
SelectEventsAs(uid, rows) == {ev \in rows : EventsSelectPolicy(uid, ev)}

NoRow == [title |-> <<>>, code |-> Null, saved |-> FALSE]

\* handleCreateEvent up to its first await: the form (whose button is disabled
\* while submitting) is submitted with title t; a blank title returns at once
HandleCreateEvent(u, t) ==
    /\ ~isSubmitting[u]
    /\ creates < MaxCreates
    /\ ~(u = Anon \/ Trim(t) = <<>>)
    /\ creates' = creates + 1
    /\ isSubmitting' = [isSubmitting EXCEPT ![u] = TRUE]
    /\ dashPc' = [dashPc EXCEPT ![u] = "code"]
    /\ dashRow' = [dashRow EXCEPT ![u] = [title |-> Trim(t), code |-> Null, saved |-> FALSE]]
    /\ UNCHANGED <<events, dashFetchReq, dashFetchResp, dashToasts, reactVars, toasts, event,
                   upVars, storeVars, phVars, subVars, cardVars, dlVars, ownVars, apiVars,
                   evtVars, joinVars>>

\* generate_event_code returns: its loop left with a code no row carried when
\* it looked
GenerateEventCode(u, c) ==
    /\ dashPc[u] = "code"
    /\ ~CodeExists(dbEvents, c)
    /\ dashPc' = [dashPc EXCEPT ![u] = "insert"]
    /\ dashRow' = [dashRow EXCEPT ![u].code = <<c>>]
    /\ UNCHANGED <<events, isSubmitting, dashFetchReq, dashFetchResp, dashToasts, creates,
                   reactVars, toasts, event, upVars, storeVars, phVars, subVars, cardVars,
                   dlVars, ownVars, apiVars, evtVars, joinVars>>

\* the events insert resolves: the store has applied it under the INSERT
\* policy and the UNIQUE constraint; on an error the failure is shown, else
\* the success is shown and fetchEvents called
InsertEventResolves(u) ==
    /\ dashPc[u] = "insert"
    /\ LET row == [id |-> nextEventId, user_id |-> u, title |-> dashRow[u].title,
                   event_code |-> dashRow[u].code[1]]
       IN  dbEvents' = InsertEventAs(u, dbEvents, row)
    /\ isSubmitting' = [isSubmitting EXCEPT ![u] = FALSE]
    /\ dashPc' = [dashPc EXCEPT ![u] = "idle"]
    /\ IF dbEvents' = dbEvents
       THEN /\ dashToasts' = [dashToasts EXCEPT ![u] =
                                 Append(@, ErrorToast("Failed to create event", 0))]
            /\ UNCHANGED <<nextEventId, dashFetchReq, dashRow>>
       ELSE /\ dashToasts' = [dashToasts EXCEPT ![u] = Append(@, SuccessToast("Event created!"))]
            /\ nextEventId' = nextEventId + 1
            /\ dashFetchReq' = [dashFetchReq EXCEPT ![u] = @ + 1]
            /\ dashRow' = [dashRow EXCEPT ![u].saved = TRUE]
    /\ UNCHANGED <<events, dashFetchResp, creates, reactVars, toasts, event, upVars, storeVars,
                   phVars, subVars, cardVars, dlVars, ownVars, apiVars, joinVars>>

\* the store serves a fetchEvents request of the dashboard of u: select('*')
\* with no filter of its own, under the SELECT policies
ServeFetchEvents(u) ==
    /\ dashFetchReq[u] > 0
    /\ dashFetchReq' = [dashFetchReq EXCEPT ![u] = @ - 1]
    /\ dashFetchResp' = [dashFetchResp EXCEPT ![u] = @ \cup {SelectEventsAs(u, dbEvents)}]
    /\ UNCHANGED <<events, isSubmitting, dashPc, dashRow, dashToasts, creates, reactVars,
                   toasts, event, upVars, storeVars, phVars, subVars, cardVars, dlVars,
                   ownVars, apiVars, evtVars, joinVars>>

\* fetchEvents after the await: setEvents(data)
ReceiveEvents(u) ==
    /\ \E snap \in dashFetchResp[u] :
          /\ dashFetchResp' = [dashFetchResp EXCEPT ![u] = @ \ {snap}]
          /\ events' = [events EXCEPT ![u] = snap]
    /\ UNCHANGED <<isSubmitting, dashPc, dashRow, dashFetchReq, dashToasts, creates, reactVars,
                   toasts, event, upVars, storeVars, phVars, subVars, cardVars, dlVars,
                   ownVars, apiVars, evtVars, joinVars>>

\* no dashboard is open
InitDashVars ==
    /\ events = [u \in Users |-> {}]
    /\ isSubmitting = [u \in Users |-> FALSE]
    /\ dashPc = [u \in Users |-> "idle"]
    /\ dashRow = [u \in Users |-> NoRow]
    /\ dashFetchReq = [u \in Users |-> 0]
    /\ dashFetchResp = [u \in Users |-> {}]
    /\ dashToasts = [u \in Users |-> <<>>]
    /\ creates = 0

\* ========================================================= LANDING PAGE ==

\* the letters String.prototype.toUpperCase maps, with their images
LowerLetters == <<"a", "b", "c", "d", "e", "f", "z">>
UpperLetters == <<"A", "B", "C", "D", "E", "F", "Z">>

UpperChar(ch) ==
    IF \E i \in 1..Len(LowerLetters) : LowerLetters[i] = ch
    THEN UpperLetters[CHOOSE i \in 1..Len(LowerLetters) : LowerLetters[i] = ch]
    ELSE ch

LowerChar(ch) ==
    IF \E i \in 1..Len(UpperLetters) : UpperLetters[i] = ch
    THEN LowerLetters[CHOOSE i \in 1..Len(UpperLetters) : UpperLetters[i] = ch]
    ELSE ch

\* String.prototype.toUpperCase
ToUpperCase(t) == [i \in 1..Len(t) |-> UpperChar(t[i])]

ToLowerCase(t) == [i \in 1..Len(t) |-> LowerChar(t[i])]

Spaces(n) == [i \in 1..n |-> " "]

\* what a visitor types into the event code input: nothing, whitespace, a
\* code of the table or another one, in upper or lower case, a code with a
\* gap in it, each with whitespace before and after or without
JoinBodies ==
    {<<>>, <<"\t">>, <<"A", "B", " ", "1", "2", "C", "D">>}
        \cup RouteCodes \cup {ToLowerCase(c) : c \in RouteCodes}
JoinInputs ==
    {Spaces(l) \o b \o Spaces(r) : b \in JoinBodies, l \in 0..MaxPad, r \in 0..MaxPad}

\* .eq('event_code', eventCode.trim().toUpperCase())
JoinQuery(input) == ToUpperCase(Trim(input))

\* faulty variant: the route is built from the input as typed
GuestRoute_mut(input) == <<"guest", input>>

\* `/guest/${eventCode.trim().toUpperCase()}`
GuestRoute(input) == <<"guest", ToUpperCase(Trim(input))>>

\* select event_code from events where event_code = c, .single(): the row when
\* exactly one matches, an error otherwise
SingleEventByCode(rows, c) ==
    LET hit == {ev \in rows : ev.event_code = c} IN
    IF Cardinality(hit) = 1
    THEN [error |-> FALSE, data |-> <<[event_code |-> (CHOOSE ev \in hit : TRUE).event_code]>>]
    ELSE [error |-> TRUE, data |-> Null]

\* the visitor types into the event code input
SetEventCode(v) ==
    /\ navigated = Null
    /\ joinCode # v
    /\ joinCode' = v
    /\ UNCHANGED <<joinPc, joinArg, joinQuery, joinResp, lookups, navigated, joinToasts, joins,
                   reactVars, toasts, event, upVars, storeVars, phVars, subVars, cardVars,
                   dlVars, ownVars, apiVars, evtVars, dashVars>>

\* handleJoinEvent up to its await (calls are followed one at a time; a call
\* reads the input its closure captured): blank input is refused with a
\* notification, else the lookup is sent
HandleJoinEvent ==
    /\ navigated = Null
    /\ joinPc = "idle"
    /\ joins < MaxJoins
    /\ joins' = joins + 1
    /\ joinArg' = joinCode
    /\ IF Trim(joinCode) = <<>>
       THEN /\ joinToasts' = Append(joinToasts, ErrorToast("Please enter an event code", 0))
            /\ UNCHANGED <<joinPc, joinQuery, lookups>>
       ELSE /\ joinPc' = "lookup"
            /\ joinQuery' = JoinQuery(joinCode)
            /\ lookups' = lookups + 1
            /\ UNCHANGED joinToasts
    /\ UNCHANGED <<joinCode, joinResp, navigated, reactVars, toasts, event, upVars, storeVars,
                   phVars, subVars, cardVars, dlVars, ownVars, apiVars, evtVars, dashVars>>

\* the store serves the lookup
ServeLookup ==
    /\ joinPc = "lookup"
    /\ joinPc' = "response"
    /\ joinResp' = SingleEventByCode(dbEvents, joinQuery)
    /\ UNCHANGED <<joinCode, joinArg, joinQuery, lookups, navigated, joinToasts, joins,
                   reactVars, toasts, event, upVars, storeVars, phVars, subVars, cardVars,
                   dlVars, ownVars, apiVars, evtVars, dashVars>>

\* the lookup does not get through: the client reports an error
LookupFails ==
    /\ joinPc = "lookup"
    /\ joinPc' = "response"
    /\ joinResp' = [error |-> TRUE, data |-> Null]
    /\ UNCHANGED <<joinCode, joinArg, joinQuery, lookups, navigated, joinToasts, joins,
                   reactVars, toasts, event, upVars, storeVars, phVars, subVars, cardVars,
                   dlVars, ownVars, apiVars, evtVars, dashVars>>

\* handleJoinEvent after the await: notify on an error or no row, else navigate
ReceiveLookup ==
    /\ joinPc = "response"
    /\ joinPc' = "idle"
    /\ IF joinResp.error \/ joinResp.data = Null
       THEN /\ joinToasts' = Append(joinToasts, ErrorToast("Invalid event code", 0))
            /\ UNCHANGED navigated
       ELSE /\ navigated' = <<GuestRoute(joinArg)>>
            /\ UNCHANGED joinToasts
    /\ UNCHANGED <<joinCode, joinArg, joinQuery, joinResp, lookups, joins,
                   reactVars, toasts, event, upVars, storeVars, phVars, subVars, cardVars,
                   dlVars, ownVars, apiVars, evtVars, dashVars>>

NoResponse == [error |-> FALSE, data |-> Null]

\* the landing page as first rendered
InitJoinVars ==
    /\ joinCode = <<>>
    /\ joinPc = "idle"
    /\ joinArg = <<>>
    /\ joinQuery = <<>>
    /\ joinResp = NoResponse
    /\ lookups = 0
    /\ navigated = Null
    /\ joinToasts = <<>>
    /\ joins = 0

\* state after the view is mounted on the route of event 1: `event` is null,
\* fetchEvent is in flight, fetchPhotos has returned at its null check, the
\* channels are subscribed
InitMediaVars ==
    /\ eventCode = EventCodes[1]
    /\ photos = <<>>
    /\ effEvent = NoEvent
    /\ switches = 0
    /\ evFetch = {EventCodes[1]}
    /\ phFetchReq = [k \in EventIds |-> 0]
    /\ phFetchResp = {}
    /\ phNotif = <<>>
    /\ channels = ChannelsFor(EventCodes[1])
    /\ mounted = TRUE

InitCardVars ==
    rendered = [g \in Guests |-> [m \in {BadgeMedia[i] : i \in 1..Len(BadgeMedia)} |-> NotRendered]]

InitDownloadVars ==
    /\ isDownloading = FALSE
    /\ progress = Null
    /\ dlMedias = <<>> /\ dlIdx = 0 /\ dlPc = "idle"
    /\ dlLog = <<>>
    /\ archive = {}
    /\ offered = Null
    /\ dlToasts = <<>>
    /\ dsPc = "idle"
    /\ dsMedia = Null
    /\ dsOffered = <<>>

InitOwnerVars ==
    /\ user = Anon
    /\ ovPc = "unmounted"
    /\ ovUser = Anon
    /\ isOwner = FALSE
    /\ ovPhotos = <<>>
    /\ ovFetchReq = 0
    /\ ovFetchResp = {}
    /\ delPc = "idle"
    /\ delTarget = NoTarget
    /\ deletes = 0
    /\ ovToasts = <<>>

InitApiVars == lastReq = NoRequest

\* the events table when a behaviour starts
InitEvents ==
    {[id |-> k, user_id |-> EventOwner[k], title |-> <<"P">>, event_code |-> EventCodes[k]] :
        k \in EventIds}

InitEventVars ==
    /\ dbEvents = InitEvents
    /\ nextEventId = Len(EventCodes) + 1

InitUploadVars ==
    /\ event = NoEvent
    /\ caption = "" /\ uploaderName = ""
    /\ isUploading = FALSE
    /\ fileInput = <<>>
    /\ upFiles = <<>> /\ upIdx = 0 /\ upPc = "idle"
    /\ upClosure = [event |-> NoEvent, caption |-> "", uploaderName |-> ""]
    /\ upMeta = "none"
    /\ upLog = <<>>
    /\ batches = 0
    /\ blobs = {}

InitStoreVars ==
    /\ dbPhotos = {}
    /\ nextPhotoId = 1
    /\ clock = 0

InitAll ==
    /\ InitReactionVars /\ InitToasts /\ InitUploadVars /\ InitStoreVars /\ InitMediaVars
    /\ InitCardVars /\ InitDownloadVars /\ InitOwnerVars /\ InitApiVars /\ InitEventVars
    /\ InitDashVars /\ InitJoinVars

InitUpload == InitAll

NextUpload ==
    \/ \E c \in RouteCodes : ReceiveEvent(c)
    \/ \E v \in Captions : SetCaption(v)
    \/ \E v \in Names : SetUploaderName(v)
    \/ \E files \in Batches : HandleFileSelect(files)
    \/ UploadFails
    \/ \E meta \in {"loads", "silent"} : UploadSucceeds(meta)
    \/ MetadataLoaded
    \/ InsertSucceeds
    \/ InsertFails


SpecUpload == InitUpload /\ [][NextUpload]_vars

\* the await points of handleFileSelect resolve when their outcome is in
FairUpload ==
    /\ WF_vars(UploadFails \/ \E meta \in {"loads", "silent"} : UploadSucceeds(meta))
    /\ WF_vars(MetadataLoaded)
    /\ WF_vars(InsertSucceeds \/ InsertFails)

FairSpecUpload == SpecUpload /\ FairUpload

\* the views of the guests hold a snapshot of some reactions table, nothing is
\* in flight
InitBadges ==
    /\ \E L \in SUBSET BadgeRows :
          /\ dbReactions = L
          /\ reactions = [g \in Guests |-> L]
    /\ nextRowId = Cardinality(BadgeRows) + 1
    /\ calls = [g \in Guests |-> <<>>]
    /\ rFetchReq = [g \in Guests |-> 0]
    /\ rFetchResp = [g \in Guests |-> {}]
    /\ rNotif = [g \in Guests |-> 0]
    /\ InitToasts /\ InitUploadVars /\ InitStoreVars /\ InitMediaVars
    /\ InitCardVars /\ InitDownloadVars /\ InitOwnerVars /\ InitApiVars /\ InitEventVars
    /\ InitDashVars /\ InitJoinVars

NextBadges ==
    \/ \E g \in Guests, i \in 1..Len(BadgeMedia) : RenderMediaCard(g, BadgeMedia[i])

SpecBadges == InitBadges /\ [][NextBadges]_vars

\* the state in which no guest view is open: nothing is subscribed
InitNoGuestView ==
    /\ InitReactionVars /\ InitToasts /\ InitUploadVars /\ InitStoreVars
    /\ eventCode = EventCodes[1]
    /\ photos = <<>>
    /\ effEvent = NoEvent
    /\ switches = 0
    /\ evFetch = {}
    /\ phFetchReq = [k \in EventIds |-> 0]
    /\ phFetchResp = {}
    /\ phNotif = <<>>
    /\ channels = {}
    /\ mounted = FALSE
    /\ InitCardVars /\ InitDownloadVars /\ InitOwnerVars /\ InitApiVars /\ InitEventVars
    /\ InitDashVars /\ InitJoinVars

InitAccess == InitNoGuestView

NextAccess ==
    \/ \E caller \in Callers, ev \in EventIds, delivered \in BOOLEAN :
          RequestInsertPhoto(caller, ev, delivered)
    \/ \E caller \in Callers, id \in 1..MaxPhotos : RequestDeletePhoto(caller, id)
    \/ \E caller \in Callers, m \in 1..MaxPhotos, e \in EmojiSet, g \in Guests :
          RequestInsertReaction(caller, m, e, guestId(g))
    \/ \E caller \in Callers, id \in 1..MaxToggles : RequestDeleteReaction(caller, id)
    \/ \E caller \in Callers, k \in EventIds : RequestDeleteEvent(caller, k)

SpecAccess == InitAccess /\ [][NextAccess]_vars

InitOwner == InitNoGuestView

NextOwner ==
    \/ \E ev \in EventIds, delivered \in BOOLEAN : StoreInsertPhoto(ev, delivered)
    \/ \E u \in Users : AuthLoaded(u)
    \/ MountEventView
    \/ ReceiveOwnerEvent
    \/ ServeOwnerPhotos
    \/ ReceiveOwnerPhotos
    \/ \E i \in 1..MaxPhotos : HandleDeletePhoto(i)
    \/ RowDeleteResolves
    \/ RowDeleteFails
    \/ BlobRemoveResolves

SpecOwner == InitOwner /\ [][NextOwner]_vars

\* the requests of the owner view are served and their responses arrive
FairOwner ==
    /\ WF_vars(ReceiveOwnerEvent)
    /\ WF_vars(ServeOwnerPhotos)
    /\ WF_vars(ReceiveOwnerPhotos)
    /\ WF_vars(RowDeleteResolves \/ RowDeleteFails)
    /\ WF_vars(BlobRemoveResolves)

FairSpecOwner == SpecOwner /\ FairOwner

\* each user's dashboard is open, the fetchEvents of its effect is in flight
InitDashboard ==
    /\ InitReactionVars /\ InitToasts /\ InitUploadVars /\ InitStoreVars /\ InitMediaVars
    /\ InitCardVars /\ InitDownloadVars /\ InitOwnerVars /\ InitApiVars /\ InitEventVars
    /\ events = [u \in Users |-> {}]
    /\ isSubmitting = [u \in Users |-> FALSE]
    /\ dashPc = [u \in Users |-> "idle"]
    /\ dashRow = [u \in Users |-> NoRow]
    /\ dashFetchReq = [u \in Users |-> 1]
    /\ dashFetchResp = [u \in Users |-> {}]
    /\ dashToasts = [u \in Users |-> <<>>]
    /\ creates = 0
    /\ InitJoinVars

NextDashboard ==
    \/ \E u \in Users, t \in Titles : HandleCreateEvent(u, t)
    \/ \E u \in Users, c \in CodeSpace : GenerateEventCode(u, c)
    \/ \E u \in Users : InsertEventResolves(u)
    \/ \E u \in Users : ServeFetchEvents(u)
    \/ \E u \in Users : ReceiveEvents(u)

SpecDashboard == InitDashboard /\ [][NextDashboard]_vars

InitJoin == InitAll

NextJoin ==
    \/ \E v \in JoinInputs : SetEventCode(v)
    \/ HandleJoinEvent
    \/ ServeLookup
    \/ LookupFails
    \/ ReceiveLookup

SpecJoin == InitJoin /\ [][NextJoin]_vars

InitDownload == InitAll

NextDownload ==
    \/ \E medias \in DlLists : DownloadMultiple(medias)
    \/ ImportResolves
    \/ ImportFails
    \/ \E ok \in BOOLEAN : FetchItem(ok)
    \/ GenerateResolves
    \/ GenerateFails

SpecDownload == InitDownload /\ [][NextDownload]_vars

\* both operations of one instance of the hook, called by its client in any
\* order and while the other is suspended
InitHook == InitAll

NextHook ==
    \/ \E medias \in DlLists : DownloadMultiple(medias)
    \/ ImportResolves
    \/ ImportFails
    \/ \E ok \in BOOLEAN : FetchItem(ok)
    \/ GenerateResolves
    \/ GenerateFails
    \/ \E media \in DlKinds : DownloadSingle(media)
    \/ SingleResolves
    \/ SingleFails

SpecHook == InitHook /\ [][NextHook]_vars

InitReactions == InitAll

\* the views are mounted on a table that holds a row for every (media, emoji,
\* participant) of the cards followed except the first guest's on the first
\* media and emoji; the initial fetchReactions of each view has resolved
FrameRows ==
    {r \in BadgeRows : ~(r.photo_id = BadgeMedia[1] /\ r.emoji = BadgeEmoji[1]
                            /\ r.guest_identifier = guestId(GuestList[1]))}

InitFrame ==
    /\ dbReactions = FrameRows
    /\ nextRowId = Cardinality(BadgeRows) + 1
    /\ reactions = [g \in Guests |-> FrameRows]
    /\ calls = [g \in Guests |-> <<>>]
    /\ rFetchReq = [g \in Guests |-> 0]
    /\ rFetchResp = [g \in Guests |-> {}]
    /\ rNotif = [g \in Guests |-> 0]
    /\ InitToasts /\ InitUploadVars /\ InitStoreVars /\ InitMediaVars
    /\ InitCardVars /\ InitDownloadVars /\ InitOwnerVars /\ InitApiVars /\ InitEventVars
    /\ InitDashVars /\ InitJoinVars

\* the toggles of SpecReactions, on a table that holds other rows
SpecFrame == InitFrame /\ [][NextReactions]_vars


SpecReactions == InitReactions /\ [][NextReactions]_vars

InitPhotos == InitAll

NextPhotos ==
    \/ \E c \in RouteCodes : ReceiveEvent(c)
    \/ \E c \in RouteCodes : ChangeEventCode(c)
    \/ LeaveView
    \/ \E ev \in EventIds, delivered \in BOOLEAN : StoreInsertPhoto(ev, delivered)
    \/ \E id \in 1..MaxPhotos : StoreDeletePhoto(id)
    \/ OnPhotoInsert
    \/ OnPhotoDelete
    \/ \E ev \in EventIds : ServeFetchPhotos(ev)
    \/ ReceivePhotos

SpecPhotos == InitPhotos /\ [][NextPhotos]_vars

\* notifications in flight reach their handler, requests in flight are served
\* and their responses arrive
FairPhotos ==
    /\ WF_vars(\E c \in RouteCodes : ReceiveEvent(c))
    /\ WF_vars(OnPhotoInsert)
    /\ WF_vars(OnPhotoDelete)
    /\ WF_vars(\E ev \in EventIds : ServeFetchPhotos(ev))
    /\ WF_vars(ReceivePhotos)

FairSpecPhotos == SpecPhotos /\ FairPhotos

\* the media rows event 1 holds when the guest view is opened on its route
StoredAtOpen == {GuestPhotoRow(1, 1, 1)}

\* state after the view is mounted on the route of event 1 while the store
\* holds media of that event
InitOpen ==
    /\ dbPhotos = StoredAtOpen
    /\ nextPhotoId = Cardinality(StoredAtOpen) + 1
    /\ clock = Cardinality(StoredAtOpen)
    /\ blobs = {r.storage_path : r \in StoredAtOpen}
    /\ event = NoEvent
    /\ caption = "" /\ uploaderName = ""
    /\ isUploading = FALSE
    /\ fileInput = <<>>
    /\ upFiles = <<>> /\ upIdx = 0 /\ upPc = "idle"
    /\ upClosure = [event |-> NoEvent, caption |-> "", uploaderName |-> ""]
    /\ upMeta = "none"
    /\ upLog = <<>>
    /\ batches = 0
    /\ InitReactionVars /\ InitToasts /\ InitMediaVars
    /\ InitCardVars /\ InitDownloadVars /\ InitOwnerVars /\ InitApiVars /\ InitEventVars
    /\ InitDashVars /\ InitJoinVars

SpecOpen == InitOpen /\ [][NextPhotos]_vars

FairSpecOpen == SpecOpen /\ FairPhotos

\* ------------------------------------------------- claims on the reactions

RowPresent(g, m, e) == Matching(dbReactions, m, e, guestId(g)) # {}

\* nothing of guest g is in flight: no notification, no fetch, no write
Settled(g) ==
    /\ rNotif[g] = 0 /\ rFetchReq[g] = 0 /\ rFetchResp[g] = {}
    /\ InFlight(g) = {}

\* calls n1 and n1 + 1 of guest g are two toggles of the same (media, emoji)
\* issued in sequence, each awaited: nothing of g was unreturned when either
\* started, the first started with its local list agreeing with the store on
\* the triple, the second has returned and no later call was issued
SequentialPair(g, n1) ==
    /\ n1 + 1 = Len(calls[g])
    /\ LET c1 == calls[g][n1]
           c2 == calls[g][n1 + 1]
       IN  /\ c1.unreturned = {} /\ c2.unreturned = {}
           /\ c2.pc = "done"
           /\ c1.photo = c2.photo /\ c1.emoji = c2.emoji
           /\ c1.rowBefore = (c1.op = "delete")

\* C1: two toggles of the same (media, emoji) by one participant, issued in
\* sequence and each awaited, leave the store's row for the triple as it was
\* before the first call, and so the participant's has-reacted value once its
\* refetches have resolved.
C1_ToggleTwiceRestores ==
    \A g \in Guests : \A n1 \in 1..MaxToggles :
        (n1 + 1 <= Len(calls[g]) /\ SequentialPair(g, n1)) =>
            LET c1 == calls[g][n1] IN
            /\ RowPresent(g, c1.photo, c1.emoji) = c1.rowBefore
            /\ Settled(g) => (hasReacted(g, c1.photo, c1.emoji) = c1.rowBefore)

\* calls n1 < n2 of guest g are two toggles of the same (media, emoji) that
\* both read "absent" before either write resolved, both writes have resolved
\* and no later call of g on the triple has
ConcurrentPair(g, n1, n2) ==
    /\ n1 < n2 /\ n2 <= Len(calls[g])
    /\ LET c1 == calls[g][n1]
           c2 == calls[g][n2]
       IN  /\ c1.photo = c2.photo /\ c1.emoji = c2.emoji
           /\ c1.op = "insert" /\ c2.op = "insert"
           /\ ~c1.rowBefore /\ ~c2.rowBefore
           /\ n1 \in c2.unresolved
           /\ c1.pc \in {"applied", "done"} /\ c2.pc \in {"applied", "done"}
           /\ \A n3 \in 1..Len(calls[g]) :
                  (n3 > n2 /\ calls[g][n3].photo = c1.photo /\ calls[g][n3].emoji = c1.emoji)
                      => calls[g][n3].pc = "sent"

\* C2: two concurrent toggles of one participant on the same (media, emoji),
\* both started from the absent state, leave exactly one row for the triple
\* in the store once both have resolved.
C2_ConcurrentTogglesOneRow ==
    \A g \in Guests : \A n1, n2 \in 1..MaxToggles :
        ConcurrentPair(g, n1, n2) =>
            Cardinality(Matching(dbReactions, calls[g][n1].photo, calls[g][n1].emoji, guestId(g))) = 1

C2_Witness ==
    \E g \in Guests : \E n1, n2 \in 1..MaxToggles :
        /\ ConcurrentPair(g, n1, n2)
        /\ {calls[g][n1].result, calls[g][n2].result} = {"ok", "unique_violation"}

\* C3: the reactions table never holds two rows with the same
\* (media, emoji, participant).
C3_UniqueTriple ==
    \A r1, r2 \in dbReactions :
        (r1.photo_id = r2.photo_id /\ r1.emoji = r2.emoji
            /\ r1.guest_identifier = r2.guest_identifier) => r1 = r2

C3_Witness ==
    \E g \in Guests : \E n \in 1..Len(calls[g]) :
        /\ calls[g][n].result = "unique_violation"
        /\ Cardinality(Matching(dbReactions, calls[g][n].photo, calls[g][n].emoji, guestId(g))) = 1

\* C4: an insert rejected by the uniqueness constraint leaves the table as it
\* was, and the toggle that issued it returns without showing a notification
\* and with one more fetchReactions request sent.
C4_RejectedInsertBenign ==
    [][\A g \in Guests : \A n \in 1..Len(calls[g]) :
          /\ (calls[g][n].pc = "sent" /\ calls'[g][n].result = "unique_violation")
                => dbReactions' = dbReactions
          /\ (calls[g][n].pc = "applied" /\ calls[g][n].result = "unique_violation"
                /\ calls'[g][n].pc # "applied")
                => /\ calls'[g][n].pc = "done"
                   /\ toasts'[g] = toasts[g]
                   /\ rFetchReq'[g] = rFetchReq[g] + 1]_vars

C4_Witness ==
    \E g \in Guests : \E n \in 1..Len(calls[g]) :
        /\ calls[g][n].result = "unique_violation"
        /\ calls[g][n].pc = "done"
        /\ toasts[g] = <<>>
        /\ rFetchReq[g] > 0

\* no reaction write of any session is still to be applied, and nothing of
\* guest g is in flight: no notification, no toggle that has yet to call
\* fetchReactions, no fetchReactions request or response
Quiescent(g) ==
    /\ \A h \in Guests : Unresolved(h) = {}
    /\ Settled(g)

\* C12: once the reaction writes have stopped and every refetch of a guest
\* view has resolved, its local reaction list equals the reactions table.
C12_ReactionsConverge ==
    \A g \in Guests : Quiescent(g) => reactions[g] = dbReactions

\* C16: every toggle of a guest session carries the identity that the
\* session's has-reacted lookups use, and every reaction row in the store
\* carries the identity of the session that inserted it.
C16_OneIdentityPerSession ==
    /\ \A g \in Guests : \A n \in 1..Len(calls[g]) : calls[g][n].ident = guestId(g)
    /\ \A r \in dbReactions : \E g \in Guests :
           /\ r.guest_identifier = guestId(g)
           /\ \E n \in 1..Len(calls[g]) :
                  calls[g][n].op = "insert" /\ calls[g][n].ident = r.guest_identifier

\* a session inserted a row and a later toggle of it found that row by its
\* identity
C16_Witness ==
    \E g \in Guests :
        /\ Len(calls[g]) = 2
        /\ calls[g][1].op = "insert" /\ calls[g][1].result = "ok"
        /\ calls[g][2].op = "delete" /\ calls[g][2].pc = "done"
        /\ dbReactions = {}

\* the rows of the local list of g that carry (m, e) and the identity of g
OwnLocalRows(g, m, e) ==
    {r \in reactions[g] : r.photo_id = m /\ r.emoji = e /\ r.guest_identifier = guestId(g)}

\* C26: a toggle call chooses its one write from the local list as it is when
\* the call starts: a delete by the id of a row of the list that matches
\* (media, emoji, own identity) when there is one, else an insert of (media,
\* emoji, own identity).  The write of a call is served once and is the only
\* thing that changes the table; when it has resolved, with whatever result,
\* the call sends one fetchReactions request and is done; a fetchReactions
\* response is the whole table.
C26_ToggleIssuesOneWrite ==
    /\ [][\A g \in Guests : Len(calls'[g]) # Len(calls[g]) =>
            /\ Len(calls'[g]) = Len(calls[g]) + 1
            /\ LET c   == calls'[g][Len(calls'[g])]
                   own == OwnLocalRows(g, c.photo, c.emoji)
               IN  /\ c.pc = "sent"
                   /\ IF own # {}
                      THEN c.op = "delete" /\ c.id \in {r.id : r \in own}
                      ELSE c.op = "insert" /\ c.ident = guestId(g)]_vars
    /\ [][\A g \in Guests : \A n \in 1..Len(calls[g]) :
            /\ calls'[g][n].op = calls[g][n].op /\ calls'[g][n].id = calls[g][n].id
            /\ calls'[g][n].photo = calls[g][n].photo /\ calls'[g][n].emoji = calls[g][n].emoji
            /\ calls'[g][n].pc # calls[g][n].pc =>
                   <<calls[g][n].pc, calls'[g][n].pc>> \in {<<"sent", "applied">>, <<"applied", "done">>}
            /\ (calls[g][n].pc = "applied" /\ calls'[g][n].pc = "done") =>
                   rFetchReq'[g] = rFetchReq[g] + 1]_vars
    /\ [][dbReactions' # dbReactions =>
            \E g \in Guests : \E n \in 1..Len(calls[g]) :
                calls[g][n].pc = "sent" /\ calls'[g][n].pc = "applied"]_vars
    /\ [][\A g \in Guests : rFetchResp'[g] \ rFetchResp[g] \subseteq {dbReactions}]_vars

\* a session has finished a toggle that inserted and, after it, one that
\* deleted by row id
C26_Witness ==
    \E g \in Guests : \E n1, n2 \in 1..Len(calls[g]) :
        /\ n1 < n2
        /\ calls[g][n1].op = "insert" /\ calls[g][n1].pc = "done"
        /\ calls[g][n2].op = "delete" /\ calls[g][n2].pc = "done"

\* C27: the store step that serves the write of a toggle of participant p on
\* (media m, emoji e) adds or removes no row other than one carrying
\* (m, e, p), however stale the list the toggle read was; and no other step
\* of a guest view changes the table.
C27_ToggleTouchesOwnRowOnly ==
    [][dbReactions' # dbReactions =>
         \E g \in Guests : \E n \in 1..Len(calls[g]) :
            /\ calls[g][n].pc = "sent" /\ calls'[g][n].pc = "applied"
            /\ \A r \in (dbReactions' \ dbReactions) \cup (dbReactions \ dbReactions') :
                   /\ r.photo_id = calls[g][n].photo
                   /\ r.emoji = calls[g][n].emoji
                   /\ r.guest_identifier = g
            /\ Cardinality((dbReactions' \ dbReactions) \cup (dbReactions \ dbReactions')) = 1]_vars

\* a toggle whose list was stale (it read its row as present after another
\* toggle of the session had removed it) has been served, and the rows of the
\* other participant, the other media item and the other emoji are all there
C27_Witness ==
    /\ \E g \in Guests : \E n \in 1..Len(calls[g]) :
          /\ calls[g][n].op = "delete" /\ calls[g][n].pc # "sent"
          /\ ~\E r \in dbReactions : r.id = calls[g][n].id
          /\ \E k \in 1..Len(calls[g]) :
                k # n /\ calls[g][k].op = "delete" /\ calls[g][k].id = calls[g][n].id
                      /\ calls[g][k].pc # "sent"
    /\ \A r \in FrameRows :
          (\A g \in Guests : \A n \in 1..Len(calls[g]) :
              ~(r.photo_id = calls[g][n].photo /\ r.emoji = calls[g][n].emoji
                  /\ r.guest_identifier = g))
            => r \in dbReactions

\* ------------------------------------------------ claims on the media card

\* rows of the local list of guest g for (media, emoji), of any participant
LocalRows(g, m, e) == {r \in reactions[g] : r.photo_id = m /\ r.emoji = e}

\* C15: a rendered card shows, per emoji, the number of rows of the local
\* list for (media, emoji) over all participants, and draws the button as
\* reacted exactly when one of those rows carries the viewer's identity.
C15_BadgeAndHasReacted ==
    \A g \in Guests : \A i \in 1..Len(BadgeMedia) :
        LET m == BadgeMedia[i] IN
        rendered[g][m] # NotRendered =>
            \A e \in EmojiTypes :
                /\ rendered[g][m][e].count = Cardinality(LocalRows(g, m, e))
                /\ rendered[g][m][e].reacted =
                       (\E r \in LocalRows(g, m, e) : r.guest_identifier = guestId(g))

\* both participants count toward a badge both see, and where only one of
\* them reacted the two views show the same count and different buttons
C15_Witness ==
    LET a == BadgeMedia[1]
        b == BadgeMedia[2]
        h == BadgeEmoji[1]
    IN  /\ \A g \in Guests : rendered[g][a] # NotRendered /\ rendered[g][b] # NotRendered
        /\ \A g \in Guests : rendered[g][a][h] = [count |-> 2, reacted |-> TRUE]
        /\ rendered["g1"][b][h] = [count |-> 1, reacted |-> FALSE]
        /\ rendered["g2"][b][h] = [count |-> 1, reacted |-> TRUE]
        /\ \E r \in reactions["g1"] : r.emoji = BadgeEmoji[2]

\* ---------------------------------------------- claims on the batch export

\* positions (1-based) of the items dealt with so far that were added
Added == {k \in 1..Len(dlLog) : dlLog[k] = "added"}

\* the entries a zip holds when exactly the items at positions ks were added
EntriesOf(ks) == {FileName(k, DownloadExt(dlMedias[k])) : k \in ks}

\* C17: a failed fetch of an item never ends the export: the loop goes on to
\* the next item or to the generation of the zip; the zip holds one entry
\* media-<position><ext> per item fetched so far and none for a failed
\* one, and that is the zip handed over when the export is done.
C17_ArchiveHoldsSucceeded ==
    /\ [](dlPc \in {"fetch", "generate", "done"} => archive = EntriesOf(Added))
    /\ [](dlPc = "done" =>
            /\ Len(dlLog) = Len(dlMedias)
            /\ offered = <<EntriesOf(Added)>>)
    /\ [][dlPc = "fetch" => dlPc' \in {"fetch", "generate"}]_vars

C17_Witness ==
    /\ dlPc = "done"
    /\ dlLog = <<"added", "skipped", "added">>
    /\ offered # Null
    /\ Cardinality(offered[1]) = 2
    /\ \E k \in {1, 3} : dlMedias[k].file_extension = Null

\* C18: while the export is between its import and the end of the generation
\* the reported progress is (items dealt with, total); the count never
\* decreases, never exceeds the total, and is (total, total) while the zip
\* is generated.
C18_ProgressCountsItems ==
    /\ [](dlPc \in {"fetch", "generate"} =>
            /\ progress # Null
            /\ progress.total = Len(dlMedias)
            /\ progress.current = Len(dlLog)
            /\ progress.current <= progress.total)
    /\ [](dlPc = "generate" => progress.current = progress.total)
    /\ [][(progress # Null /\ progress' # Null) =>
             progress'.current >= progress.current]_vars

C18_Witness ==
    /\ dlPc = "generate"
    /\ Len(dlMedias) = 3
    /\ progress = [current |-> 3, total |-> 3]
    /\ \E k \in 1..3 : dlLog[k] = "skipped"

\* ---------------------------------------------------- claims on the upload

\* a batch has run to the end of handleFileSelect
BatchFinished == upPc = "idle" /\ batches > 0

FailedUploads == {k \in 1..Len(upLog) : upLog[k] = "upload_failed"}

\* rows inserted for the files of the latest batch
BatchRows == {r \in dbPhotos : r.storage_path[2] = batches}

\* the error notifications shown since the previous batch ended, up to
\* position k of the notifications
RECURSIVE ErrorsUpTo(_, _)
ErrorsUpTo(t, k) ==
    IF k = 0 THEN <<>>
    ELSE IF t[k].kind = "success" THEN <<>>
    ELSE Append(ErrorsUpTo(t, k - 1), t[k])

BatchErrors == ErrorsUpTo(toasts[Uploader], Len(toasts[Uploader]) - 1)

\* C5: when exactly one file of a batch fails at the blob upload and nothing
\* else fails, the loop has gone through every file, one row exists for each
\* other file and none for the failed one, and exactly one failure
\* notification was shown, naming the failed file.
C5_OneFailedUpload ==
    (/\ BatchFinished
     /\ Cardinality(FailedUploads) = 1
     /\ \A k \in 1..Len(upLog) : upLog[k] # "save_failed")
    => LET f == CHOOSE k \in FailedUploads : TRUE IN
       /\ Len(upLog) = Len(upFiles)
       /\ Cardinality(BatchRows) = Len(upFiles) - 1
       /\ \A i \in 1..Len(upFiles) :
             (i # f) <=> (\E r \in BatchRows : r.storage_path[3] = i)
       /\ BatchErrors = <<ErrorToast("Failed to upload", f)>>

C5_Witness ==
    /\ BatchFinished
    /\ Len(upFiles) = 2
    /\ upLog = <<"upload_failed", "saved">>
    /\ Cardinality(BatchRows) = 1

\* C6: whatever the per-file outcomes, a started batch finishes: every file
\* is attempted and isUploading returns to false.
C6_BatchFinishes ==
    isUploading ~> (~isUploading /\ Len(upLog) = Len(upFiles))

\* C7: a video whose element never reports loaded metadata still goes on to
\* the record insert, with is_video true and null duration, width and height.
C7_SilentVideoStillInserted ==
    \A b \in 1..MaxBatches : \A i \in 1..MaxFiles :
        (upPc = "meta" /\ upMeta = "silent" /\ batches = b /\ upIdx = i)
            ~> (/\ upPc = "insert" /\ batches = b /\ upIdx = i
                /\ UploadRow(0, 0).is_video
                /\ UploadRow(0, 0).video_duration = Null
                /\ UploadRow(0, 0).video_width = Null
                /\ UploadRow(0, 0).video_height = Null)

\* C8 (as stated): when the batch that ends had a failed blob upload, the
\* caption and name inputs keep their values.
C8_InputsPreservedAfterFailure ==
    [][(upPc # "idle" /\ upPc' = "idle"
            /\ \E k \in 1..Len(upLog') : upLog'[k] = "upload_failed")
        => (caption' = caption /\ uploaderName' = uploaderName)]_vars

\* C8 (amended): a failed blob upload leaves the caption and name inputs as
\* they are while the batch goes on; when the batch ends both inputs are
\* emptied, whether or not a file failed.
C8_InputsClearedAtBatchEnd ==
    [][/\ (upPc = "upload" /\ upLog' = Append(upLog, "upload_failed") /\ upPc' # "idle")
            => (caption' = caption /\ uploaderName' = uploaderName)
       /\ (upPc # "idle" /\ upPc' = "idle")
            => (caption' = "" /\ uploaderName' = "")]_vars

C8_Witness ==
    /\ BatchFinished
    /\ FailedUploads # {}
    /\ Len(upLog) > 1
    /\ upClosure.caption # "" /\ upClosure.uploaderName # ""
    /\ caption = "" /\ uploaderName = ""

\* the storage key of the k-th file of the latest batch
BatchKey(k) == StorageKey(upClosure.event, batches, k, upFiles[k])

\* C29: when the record insert of a file fails (its blob upload had
\* succeeded), the step leaves the bucket and the photos table as they are,
\* shows the failure notification and goes on to the next file, or to the
\* end of the batch after the last one; from then on the blob is in the
\* bucket and no photos row references it.
C29_FailedInsertLeavesBlob ==
    /\ [][(upPc = "insert" /\ upLog' = Append(upLog, "save_failed")) =>
            /\ BatchKey(upIdx) \in blobs
            /\ blobs' = blobs /\ dbPhotos' = dbPhotos
            /\ Len(toasts'[Uploader]) > Len(toasts[Uploader])
            /\ toasts'[Uploader][Len(toasts[Uploader]) + 1] =
                   ErrorToast("Failed to save upload", 0)
            /\ IF upIdx < Len(upFiles)
               THEN upPc' = "upload" /\ upIdx' = upIdx + 1 /\ isUploading'
               ELSE upPc' = "idle"]_vars
    /\ [](\A k \in 1..Len(upLog) : upLog[k] = "save_failed" =>
            /\ BatchKey(k) \in blobs
            /\ ~\E r \in dbPhotos : r.storage_path = BatchKey(k))

\* the insert of the first file failed, the loop went on and saved the second
C29_Witness ==
    /\ BatchFinished
    /\ upLog = <<"save_failed", "saved">>
    /\ BatchKey(1) \in blobs
    /\ Cardinality(BatchRows) = 1

\* C30: a batch in which every file failed, at the blob upload or at the
\* record insert, does not end with a success notification.
C30_NoSuccessWhenAllFailed ==
    (/\ BatchFinished
     /\ \A k \in 1..Len(upLog) : upLog[k] \in {"upload_failed", "save_failed"})
        => toasts[Uploader][Len(toasts[Uploader])].kind # "success"

\* ------------------------------------------------ claims on the media list

\* C9: the local media list is always newest first: no item stands before an
\* item with a later created_at.
C9_NewestFirst ==
    \A i, j \in 1..Len(photos) :
        i < j => photos[i].created_at >= photos[j].created_at

\* C10: the local media list never holds two entries with the same media id.
C10_NoDuplicateMedia ==
    \A i, j \in 1..Len(photos) :
        photos[i].id = photos[j].id => i = j

\* media id is in the local list as an item of the viewed event
Visible(id) ==
    \E i \in 1..Len(photos) :
        photos[i].id = id /\ photos[i].event_id \in EventsByCode(eventCode)

InStore(id) == \E r \in dbPhotos : r.id = id

\* C11: when a media item of the viewed event is deleted from the store while
\* the view shows it, the delete notification leads to a refetch and the item
\* leaves the local list.
C11_DeletedItemLeavesList ==
    \A id \in 1..MaxPhotos :
        (mounted /\ Visible(id) /\ ~InStore(id)) ~> (~mounted \/ ~Visible(id))

\* C28: a media item the store held for the event when the guest view was
\* opened on its route shows in the list once the fetches of the open have
\* resolved, as long as the view stays on that route and the item in the store.
C28_StoredMediaShownOnOpen ==
    \A r \in StoredAtOpen :
        (mounted /\ switches = 0 /\ InStore(r.id))
            ~> (Visible(r.id) \/ ~InStore(r.id) \/ ~mounted \/ switches > 0)

\* C14: every item of the local media list belongs to the event the route
\* names.
C14_NoCrossEventLeakage ==
    \A i \in 1..Len(photos) : photos[i].event_id \in EventsByCode(eventCode)

\* C13: the view holds at most one photos channel and one reactions channel,
\* both named for the current event code, and none once it is left.
C13_ChannelsScoped ==
    /\ \A t \in {"photos", "reactions"} :
           Cardinality({ch \in channels : ch.table = t}) <= 1
    /\ \A ch \in channels : ch.code = eventCode
    /\ mounted => channels = ChannelsFor(eventCode)
    /\ ~mounted => channels = {}

C13_Witness ==
    /\ ~mounted
    /\ switches > 0
    /\ eventCode # EventCodes[1]
    /\ channels = {}

\* C32: in the owner view isOwner holds only for the owner of the event, and
\* once the event is loaded and the session of the event's owner is known to
\* the view, isOwner comes to hold, whichever of the two came first.
C32_IsOwnerMatchesUser ==
    /\ [](isOwner => (user # Anon /\ user = OwnerOfEvent(OwnerRoute)))
    /\ ((ovPc = "loaded" /\ user # Anon /\ user = OwnerOfEvent(OwnerRoute)) ~> isOwner)

OwnerOf(row) == OwnerOfEvent(row.event_id)

\* C20: a photos row leaves the table only through a delete request of the
\* owner of its event (for the row, or for the event it belongs to); a
\* delete request of any other caller, a guest included, leaves the row in
\* place, and the owner's removes it; every caller's insert of a photos row
\* and insert or delete of a reactions row is let through by the policies,
\* and takes effect when the row it names or refers to exists.
C20_OnlyOwnerDeletesMedia ==
    /\ [][\A r \in dbPhotos \ dbPhotos' :
             /\ lastReq'.op \in {"delete_photo", "delete_event"}
             /\ lastReq'.caller = OwnerOf(r)]_vars
    /\ [](lastReq.op = "delete_photo" =>
            \A r \in lastReq.rows : (lastReq.caller = OwnerOf(r)) <=> (r \notin dbPhotos))
    /\ [](lastReq.op = "insert_photo" =>
            lastReq.allowed /\ (lastReq.valid => lastReq.rows \subseteq dbPhotos))
    /\ [](lastReq.op = "insert_reaction" =>
            /\ lastReq.allowed
            /\ lastReq.valid =>
                   \A r \in lastReq.rows :
                       Matching(dbReactions, r.photo_id, r.emoji, r.guest_identifier) # {})
    /\ [](lastReq.op = "delete_reaction" =>
            lastReq.allowed /\ lastReq.rows \cap dbReactions = {})

\* a guest's delete request met an existing row and left it in the table
C20_Witness ==
    /\ lastReq.op = "delete_photo"
    /\ lastReq.caller = Anon
    /\ lastReq.rows # {}
    /\ lastReq.rows \subseteq dbPhotos
    /\ dbReactions # {}

\* C21: in every reachable state of the store every photos row references an
\* events row that exists and every reactions row references a photos row
\* that exists: deleting an event removed its media and their reactions, and
\* deleting a media row removed its reactions.
C21_NoDanglingReference ==
    /\ \A r \in dbPhotos : \E ev \in dbEvents : ev.id = r.event_id
    /\ \A x \in dbReactions : \E r \in dbPhotos : r.id = x.photo_id

\* an event was deleted and took photos and reactions with it
C21_Witness ==
    /\ lastReq.op = "delete_event" /\ lastReq.allowed
    /\ lastReq.cascade[1] > 0 /\ lastReq.cascade[2] > 0

\* a media row was deleted and took reactions with it
C21_WitnessMedia ==
    /\ lastReq.op = "delete_photo" /\ lastReq.allowed
    /\ lastReq.cascade[2] > 0

\* ------------------------------------------------- claims on the dashboard

\* the last notification the dashboard of u showed is of this kind
LastDashToast(u, kind) ==
    dashToasts[u] # <<>> /\ dashToasts[u][Len(dashToasts[u])].kind = kind

\* C22: no two events rows share a code.  An events insert of
\* handleCreateEvent whose code a row already carries (another creator was
\* handed the same free code and inserted first) adds no row and shows the
\* failure notification; an insert whose code is free adds the creator's
\* row; of two creators that hold the same code at most one has its row saved.
C22_EventCodesUnique ==
    /\ [](\A a, b \in dbEvents : a.event_code = b.event_code => a = b)
    /\ [](\A u, v \in Users :
            (u # v /\ dashRow[u].code # Null /\ dashRow[u].code = dashRow[v].code)
                => ~(dashRow[u].saved /\ dashRow[v].saved))
    /\ [][\A u \in Users : (dashPc[u] = "insert" /\ dashPc'[u] = "idle") =>
            IF CodeExists(dbEvents, dashRow[u].code[1])
            THEN /\ dbEvents' = dbEvents
                 /\ dashToasts'[u] =
                        Append(dashToasts[u], ErrorToast("Failed to create event", 0))
            ELSE /\ \E ev \in dbEvents' :
                        /\ dbEvents' = dbEvents \cup {ev}
                        /\ ev.user_id = u /\ ev.event_code = dashRow[u].code[1]
                 /\ dashToasts'[u] = Append(dashToasts[u], SuccessToast("Event created!"))]_vars

\* two creators were handed the same code before either inserted; the row of
\* one was saved, the other was shown the failure and has no row
C22_Witness ==
    \E u, v \in Users :
        /\ u # v
        /\ dashRow[u].code # Null /\ dashRow[u].code = dashRow[v].code
        /\ dashPc[u] = "idle" /\ dashPc[v] = "idle"
        /\ dashRow[u].saved /\ LastDashToast(u, "success")
        /\ ~dashRow[v].saved /\ LastDashToast(v, "error")
        /\ ~\E ev \in dbEvents : ev.user_id = v /\ ev.event_code = dashRow[v].code[1]

\* C25: the event list of a signed-in user's dashboard never holds an event
\* of another owner.
C25_DashboardListsOwnEvents ==
    \A u \in Users : \A ev \in events[u] : ev.user_id = u

\* ---------------------------------------------- claims on the landing page

\* C24: a handleJoinEvent call with empty or whitespace-only input shows the
\* validation error, sends no lookup and does not navigate; any other input
\* sends one lookup, for the trimmed and upper-cased input.  When the lookup
\* comes back with an error or without a row the error is shown and nothing
\* is navigated to; otherwise the call navigates to the guest route of the
\* trimmed, upper-cased input it was called with.  Lookups are sent and
\* routes entered by no other step, and a route entered names a code of the
\* events table.
C24_JoinOnlyResolvedCode ==
    /\ [][joins' = joins + 1 =>
            IF \A i \in 1..Len(joinCode) : joinCode[i] \in Whitespace
            THEN /\ lookups' = lookups /\ joinPc' = "idle"
                 /\ joinToasts' =
                        Append(joinToasts, ErrorToast("Please enter an event code", 0))
            ELSE /\ lookups' = lookups + 1 /\ joinPc' = "lookup"
                 /\ joinQuery' = ToUpperCase(Trim(joinCode))
                 /\ joinToasts' = joinToasts]_vars
    /\ [][(joinPc = "response" /\ joinPc' = "idle") =>
            IF joinResp.error \/ joinResp.data = Null
            THEN /\ navigated' = Null
                 /\ joinToasts' = Append(joinToasts, ErrorToast("Invalid event code", 0))
            ELSE /\ navigated' = << <<"guest", ToUpperCase(Trim(joinArg))>> >>
                 /\ joinToasts' = joinToasts]_vars
    /\ [][lookups' # lookups => joins' = joins + 1]_vars
    /\ [][navigated' # navigated => joinPc = "response"]_vars
    /\ [](navigated # Null =>
            \E ev \in dbEvents : navigated[1] = <<"guest", ev.event_code>>)

\* after a refused call, a call whose input was not typed as the code is
\* written (padded, or in lower case) has navigated to the code's guest route
C24_Witness ==
    /\ navigated # Null
    /\ joinArg # navigated[1][2]
    /\ joinToasts # <<>>

\* ------------------------------------------------ claims on the owner view

\* is the photos row with this id in the owner view's list?
OwnerSees(id) == \E i \in 1..Len(ovPhotos) : ovPhotos[i].id = id

\* C23: a media item of the viewed event that is in the store while the owner
\* view is open eventually shows in the owner view's list (or has left the
\* store), with no reload and no re-opening of the view.
C23_OwnerViewStaysCurrent ==
    \A id \in 1..MaxPhotos :
        (ovPc # "unmounted" /\ \E r \in dbPhotos : r.id = id /\ r.event_id = OwnerRoute)
            ~> (OwnerSees(id) \/ ~InStore(id))

\* the latest handleDeletePhoto has finished and its delete removed the row
DeleteDone ==
    /\ delPc = "idle"
    /\ delTarget # NoTarget
    /\ delTarget.rowDeleted

\* C19: once a handleDeletePhoto that removed the media row has finished,
\* neither the row nor the blob at its storage_path is left in the store.
C19_DeleteReleasesBlob ==
    DeleteDone => (~InStore(delTarget.id) /\ delTarget.path \notin blobs)

====
